---- MODULE Spec2Model ----
(***************************************************************************)
(* Model of the Discord voice plugin's audio core:                         *)
(*   - the PCM helpers of audio-converter.ts on byte buffers               *)
(*     (readInt16LE / writeInt16LE, downsampleAndMono, resampleAndStereo,  *)
(*     detectSilence),                                                     *)
(*   - VADDetector (state machine, pass-through, reset),                   *)
(*   - the session layer of the plugin entry file (startListening,         *)
(*     audioBuffers, transcribeUserSpeech).                                *)
(*                                                                         *)
(* A Buffer is a sequence of bytes (0..255); offsets are 0-based as in the *)
(* source, sequence indices 1-based.                                       *)
(*                                                                         *)
(* Specifications:                                                         *)
(*   Spec        one VADDetector, driven by write() and reset()            *)
(*   SpecFn      the pure buffer functions applied to bounded inputs       *)
(*   SpecSession startListening pipelines feeding audioBuffers and STT     *)
(*   SpecE2E     one session fed the spec's end-to-end scenario            *)
(***************************************************************************)
EXTENDS Integers, Sequences, FiniteSets, TLC

VARIABLES
    vad,        \* the VADDetector under test: options + private fields
    written,    \* chunks passed to vad.write(), in order
    output,     \* chunks the detector pushed downstream ('data'), in order
    events,     \* 'speech-start' / 'speech-end' events emitted, in order
    last,       \* observation of the last operation (pre-state, chunk, events)
    fnIn,       \* SpecFn: input buffer of the function under test
    fnRate,     \* SpecFn: inputSampleRate of the PCMToOpusConverter
    fnOutRate,  \* SpecFn: outputRate argument of resamplePCM
    fnOp,       \* SpecFn: which function was applied ("none" before)
    fnOut,      \* SpecFn: its outcome
    config,     \* plugin config read by startListening (vadThreshold, vadSilenceMs)
    sttProvider,  \* ctx.getSTT() returns a provider (TRUE) or null (FALSE)
    pipes,      \* the pipelines startListening created, in creation order
    audioBuffers, \* the audioBuffers map: bufferKey -> entry
    sttCalls,   \* the stt.transcribe calls made, in order
    slast,      \* observation of the last session operation
    stage,      \* SpecStage: one converter stage, its codec and its consumer
    connections,      \* the connections map: guildId -> voice connection (0: none)
    audioPlayers,     \* the audioPlayers map: guildId -> player (0: none)
    voiceConnections, \* the voice connections the library has created, in order
    players,          \* number of audio players created
    joinCalls,        \* the joinChannel calls made, in order
    jlast             \* observation of the last joinChannel / leaveChannel step

vadVars == <<vad, written, output, events, last>>
fnVars == <<fnIn, fnRate, fnOutRate, fnOp, fnOut>>
sessionVars == <<config, sttProvider, pipes, audioBuffers, sttCalls, slast>>
stageVars == <<stage>>
joinVars == <<connections, audioPlayers, voiceConnections, players, joinCalls, jlast>>
vars == <<vad, written, output, events, last, fnIn, fnRate, fnOutRate, fnOp, fnOut,
          config, sttProvider, pipes, audioBuffers, sttCalls, slast, stage,
          connections, audioPlayers, voiceConnections, players, joinCalls, jlast>>

(***************************************************************************)
(* Bounds of the model                                                     *)
(***************************************************************************)
MaxWrites == 4      \* writes to the detector under test
MaxBufLen == 14     \* bytes of a buffer handed to a pure function
MaxPipes == 2       \* pipelines started by speaking-start events
MaxPackets == 3     \* Opus packets received over all pipelines
MaxStageWrites == 4 \* chunks written to the converter stage under test
MaxCodecErrors == 2 \* 'error' events of the stage's codec
MaxJoinCalls == 3      \* joinChannel calls in a run
HighWaterMark == 2  \* readable highWaterMark of the stage, in chunks
DecodedFrames == 48 \* stereo frames the decoder yields per packet (1 ms)

(***************************************************************************)
(* Buffer primitives (Node Buffer)                                         *)
(***************************************************************************)
Byte == 0..255

\* buffer.readInt16LE(offset) throws ERR_OUT_OF_RANGE unless the two bytes
\* at offset lie inside the buffer.
CanRead(buffer, offset) == offset >= 0 /\ offset + 2 <= Len(buffer)

ReadInt16LE(buffer, offset) ==
    LET u == buffer[offset + 1] + 256 * buffer[offset + 2]
    IN IF u >= 32768 THEN u - 65536 ELSE u

\* the two bytes output.writeInt16LE(value, _) stores
WriteInt16LE(value) ==
    LET u == value % 65536
    IN <<u % 256, u \div 256>>

Abs(x) == IF x < 0 THEN -x ELSE x

\* Buffer.from of an array of int16 samples, little endian
RECURSIVE EncodeSamples(_)
EncodeSamples(samples) ==
    IF samples = <<>> THEN <<>>
    ELSE WriteInt16LE(Head(samples)) \o EncodeSamples(Tail(samples))

\* Buffer.concat(list)
RECURSIVE Concat(_)
Concat(list) ==
    IF list = <<>> THEN <<>> ELSE Head(list) \o Concat(Tail(list))

(***************************************************************************)
(* VADDetector                                                             *)
(***************************************************************************)
DefaultSilenceThreshold == 500
DefaultSilenceDurationMs == 1500
DefaultSampleRate == 16000

\* constructor(options): the three options and the two private fields
NewVAD(silenceThreshold, silenceDurationMs, sampleRate) ==
    [silenceThreshold |-> silenceThreshold,
     silenceDurationMs |-> silenceDurationMs,
     sampleRate |-> sampleRate,
     consecutiveSilence |-> 0,
     isSpeaking |-> FALSE]

\* detectSilence: the loop runs for i = 0 while i < buffer.length / 2, that
\* is ceil(length / 2) times, reading at offset 2 * i
DetectIterations(buffer) == (Len(buffer) + 1) \div 2

DetectSilenceThrows(buffer) ==
    \E i \in 0..(DetectIterations(buffer) - 1) : ~CanRead(buffer, 2 * i)

RECURSIVE SumAbs(_, _)
SumAbs(buffer, n) ==
    IF n = 0 THEN 0
    ELSE SumAbs(buffer, n - 1) + Abs(ReadInt16LE(buffer, 2 * (n - 1)))

\* mutant of DetectSilence: silent up to and including the threshold
DetectSilence_AtMost(buffer, silenceThreshold) ==
    /\ Len(buffer) > 0
    /\ 2 * SumAbs(buffer, DetectIterations(buffer)) <= silenceThreshold * Len(buffer)

\* mutant of DetectSilence: a chunk with no samples counts as silent
DetectSilence_EmptySilent(buffer, silenceThreshold) ==
    \/ Len(buffer) = 0
    \/ 2 * SumAbs(buffer, DetectIterations(buffer)) < silenceThreshold * Len(buffer)

\* avgAmplitude = sum / samples; for an empty buffer this is 0 / 0 = NaN and
\* NaN < threshold is false.  Otherwise sum / (length / 2) < threshold.
DetectSilence(buffer, silenceThreshold) ==
    /\ Len(buffer) > 0
    /\ 2 * SumAbs(buffer, DetectIterations(buffer)) < silenceThreshold * Len(buffer)

\* mutant of SilenceReached: forgets the 2 bytes per sample
SilenceReached_PerSample(v, count, chunk) ==
    count * Len(chunk) * 1000 >= v.silenceDurationMs * v.sampleRate

\* silenceDuration * 1000 >= silenceDurationMs, with
\* silenceDuration = (consecutiveSilence * chunk.length) / (sampleRate * 2)
SilenceReached(v, count, chunk) ==
    count * Len(chunk) * 1000 >= v.silenceDurationMs * v.sampleRate * 2

\* mutant of OnSilentChunk: speech-end without the isSpeaking test
OnSilentChunk_NoSpeakingTest(v, chunk) ==
    LET count == v.consecutiveSilence + 1
    IN IF count * Len(chunk) * 1000 >= v.silenceDurationMs * v.sampleRate * 2
       THEN [vad |-> [v EXCEPT !.consecutiveSilence = count, !.isSpeaking = FALSE],
             emitted |-> <<"speech-end">>]
       ELSE [vad |-> [v EXCEPT !.consecutiveSilence = count],
             emitted |-> <<>>]

\* mutant of OnSilentChunk: speech-end without leaving the Speaking state
OnSilentChunk_StaySpeaking(v, chunk) ==
    LET count == v.consecutiveSilence + 1
    IN IF count * Len(chunk) * 1000 >= v.silenceDurationMs * v.sampleRate * 2
          /\ v.isSpeaking
       THEN [vad |-> [v EXCEPT !.consecutiveSilence = count],
             emitted |-> <<"speech-end">>]
       ELSE [vad |-> [v EXCEPT !.consecutiveSilence = count],
             emitted |-> <<>>]

\* the isSilent branch of _transform
OnSilentChunk(v, chunk) ==
    LET count == v.consecutiveSilence + 1
    IN IF SilenceReached(v, count, chunk) /\ v.isSpeaking
       THEN [vad |-> [v EXCEPT !.consecutiveSilence = count, !.isSpeaking = FALSE],
             emitted |-> <<"speech-end">>]
       ELSE [vad |-> [v EXCEPT !.consecutiveSilence = count],
             emitted |-> <<>>]

\* mutant of OnLoudChunk: speech-start on every non-silent chunk
OnLoudChunk_AlwaysStart(v) ==
    [vad |-> [v EXCEPT !.isSpeaking = TRUE, !.consecutiveSilence = 0],
     emitted |-> <<"speech-start">>]

\* mutant of OnLoudChunk: the counter is left as it was
OnLoudChunk_KeepCounter(v) ==
    IF ~v.isSpeaking
    THEN [vad |-> [v EXCEPT !.isSpeaking = TRUE], emitted |-> <<"speech-start">>]
    ELSE [vad |-> v, emitted |-> <<>>]

\* the else branch of _transform
OnLoudChunk(v) ==
    IF ~v.isSpeaking
    THEN [vad |-> [v EXCEPT !.isSpeaking = TRUE, !.consecutiveSilence = 0],
          emitted |-> <<"speech-start">>]
    ELSE [vad |-> [v EXCEPT !.consecutiveSilence = 0],
          emitted |-> <<>>]

\* mutant of VADPush: a filter that forwards only non-silent chunks
VADPush_DropSilent(v, chunk) ==
    IF Len(chunk) > 0 /\ 2 * Abs(ReadInt16LE(chunk, 0)) < v.silenceThreshold * 2
    THEN <<>> ELSE <<chunk>>

\* this.push(chunk): what goes downstream for one input chunk
VADPush(v, chunk) == <<chunk>>

\* _transform(chunk): new detector state, events emitted (before the push),
\* chunks pushed
VADTransform(v, chunk) ==
    LET r == IF DetectSilence(chunk, v.silenceThreshold)
             THEN OnSilentChunk(v, chunk)
             ELSE OnLoudChunk(v)
    IN [vad |-> r.vad, emitted |-> r.emitted, pushed |-> VADPush(v, chunk)]

\* mutant of VADReset: clears the counter only
VADReset_CounterOnly(v) == [v EXCEPT !.consecutiveSilence = 0]

\* reset()
VADReset(v) == [v EXCEPT !.consecutiveSilence = 0, !.isSpeaking = FALSE]

(***************************************************************************)
(* OpusToPCMConverter.downsampleAndMono                                    *)
(***************************************************************************)
\* mutant of DownsampleOutputSamples: one output sample per six stereo frames
DownsampleOutputSamples_Sixth(buffer) == Len(buffer) \div 24

\* Math.floor(samplesPerChannel / 3) with samplesPerChannel = length / 4
\* (a fraction when the length is no multiple of 4)
DownsampleOutputSamples(buffer) == Len(buffer) \div 12

\* a readInt16LE of the loop falls outside the buffer
DownsampleThrows(buffer) ==
    \E i \in 0..(DownsampleOutputSamples(buffer) - 1) :
        ~CanRead(buffer, i * 12) \/ ~CanRead(buffer, i * 12 + 2)

\* mutant of DownsampleMono: the mean rounded toward zero
DownsampleMono_Truncate(buffer, i) ==
    LET sum == ReadInt16LE(buffer, i * 12) + ReadInt16LE(buffer, i * 12 + 2)
    IN IF sum < 0 THEN -((-sum) \div 2) ELSE sum \div 2

\* mutant of DownsampleMono: the sum of the pair, not halved
DownsampleMono_Sum(buffer, i) ==
    ReadInt16LE(buffer, i * 12) + ReadInt16LE(buffer, i * 12 + 2)

\* mono sample i: floor of the mean of the stereo pair at source frame 3 * i
DownsampleMono(buffer, i) ==
    (ReadInt16LE(buffer, i * 12) + ReadInt16LE(buffer, i * 12 + 2)) \div 2

RECURSIVE DownsampleFill(_, _)
DownsampleFill(buffer, n) ==
    IF n = 0 THEN <<>>
    ELSE DownsampleFill(buffer, n - 1) \o WriteInt16LE(DownsampleMono(buffer, n - 1))

DownsampleAndMono(buffer) ==
    IF DownsampleThrows(buffer)
    THEN [threw |-> TRUE, data |-> <<>>, silent |-> FALSE]
    ELSE [threw |-> FALSE,
          data |-> DownsampleFill(buffer, DownsampleOutputSamples(buffer)),
          silent |-> FALSE]

\* mutant of ConverterPushes: the frames after the last whole group of 3
\* are kept and put in front of the next chunk
RECURSIVE ConverterRun_Carry(_, _)
ConverterRun_Carry(carry, chunks) ==
    IF chunks = <<>> THEN <<>>
    ELSE LET joined == carry \o Head(chunks)
             used == 12 * (Len(joined) \div 12)
         IN <<DownsampleAndMono(SubSeq(joined, 1, used)).data>>
            \o ConverterRun_Carry(SubSeq(joined, used + 1, Len(joined)),
                                  Tail(chunks))

ConverterPushes_CarryOver(chunks) == ConverterRun_Carry(<<>>, chunks)

\* the chunks an OpusToPCMConverter pushes for the decoder's 'data' events,
\* in order: the handler reads its argument and no field of the converter
RECURSIVE ConverterPushes(_)
ConverterPushes(chunks) ==
    IF chunks = <<>> THEN <<>>
    ELSE <<DownsampleAndMono(Head(chunks)).data>> \o ConverterPushes(Tail(chunks))

(***************************************************************************)
(* PCMToOpusConverter.resampleAndStereo                                    *)
(* resampleRatio = 48000 / inputSampleRate is kept as an exact fraction;   *)
(* i / resampleRatio = i * inputRate / OutputRate.                         *)
(***************************************************************************)
OutputRate == 48000

RECURSIVE GCD(_, _)
GCD(a, b) == IF b = 0 THEN a ELSE GCD(b, a % b)

\* 1 / resampleRatio = inputRate / OutputRate in lowest terms, RateNum / RateDen
RateNum(inputRate) == inputRate \div GCD(inputRate, OutputRate)
RateDen(inputRate) == OutputRate \div GCD(inputRate, OutputRate)

\* Math.floor(inputSamples * resampleRatio) with inputSamples = length / 2
ResampleOutputSamples(buffer, inputRate) ==
    (Len(buffer) * RateDen(inputRate)) \div (2 * RateNum(inputRate))

\* Math.floor(i / resampleRatio)
ResampleInputIndex(i, inputRate) == (i * RateNum(inputRate)) \div RateDen(inputRate)

\* frac = inputPos - inputIndex, as the numerator over RateDen(inputRate)
ResampleFracNum(i, inputRate) == (i * RateNum(inputRate)) % RateDen(inputRate)

\* inputIndex + 1 < inputSamples, inputSamples = length / 2
ResampleHasNext(buffer, inputIndex) == 2 * (inputIndex + 1) < Len(buffer)

\* inputIndex < inputSamples
ResampleHasCurrent(buffer, inputIndex) == 2 * inputIndex < Len(buffer)

ResampleThrows(buffer, inputRate) ==
    \E i \in 0..(ResampleOutputSamples(buffer, inputRate) - 1) :
        LET inputIndex == ResampleInputIndex(i, inputRate)
        IN IF ResampleHasNext(buffer, inputIndex)
           THEN ~CanRead(buffer, inputIndex * 2)
                \/ ~CanRead(buffer, (inputIndex + 1) * 2)
           ELSE ResampleHasCurrent(buffer, inputIndex)
                /\ ~CanRead(buffer, inputIndex * 2)

\* mutant of Interpolate: continues past s2 by the fraction
Interpolate_Overshoot(s1, s2, fracNum, fracDen) ==
    (2 * fracDen * s2 + 2 * fracNum * (s2 - s1) + fracDen) \div (2 * fracDen)

\* mutant of Interpolate: Math.floor in place of Math.round
Interpolate_Floor(s1, s2, fracNum, fracDen) ==
    (fracDen * s1 + fracNum * (s2 - s1)) \div fracDen

\* Math.round(s1 + frac * (s2 - s1)) with frac = fracNum / fracDen:
\* Math.round(x) = floor(x + 1/2)
Interpolate(s1, s2, fracNum, fracDen) ==
    (2 * fracDen * s1 + 2 * fracNum * (s2 - s1) + fracDen) \div (2 * fracDen)

\* Math.max(-32768, Math.min(32767, sample))
Clamp16(sample) ==
    IF sample < -32768 THEN -32768 ELSE IF sample > 32767 THEN 32767 ELSE sample

\* the sample of output frame i, before the clamp
ResampleSample(buffer, inputRate, i) ==
    LET inputIndex == ResampleInputIndex(i, inputRate)
    IN IF ResampleHasNext(buffer, inputIndex)
       THEN Interpolate(ReadInt16LE(buffer, inputIndex * 2),
                        ReadInt16LE(buffer, (inputIndex + 1) * 2),
                        ResampleFracNum(i, inputRate), RateDen(inputRate))
       ELSE IF ResampleHasCurrent(buffer, inputIndex)
            THEN ReadInt16LE(buffer, inputIndex * 2)
            ELSE 0

RECURSIVE ResampleFill(_, _, _)
ResampleFill(buffer, inputRate, n) ==
    IF n = 0 THEN <<>>
    ELSE LET sample == Clamp16(ResampleSample(buffer, inputRate, n - 1))
         IN ResampleFill(buffer, inputRate, n - 1)
            \o WriteInt16LE(sample) \o WriteInt16LE(sample)

ResampleAndStereo(buffer, inputRate) ==
    IF ResampleThrows(buffer, inputRate)
    THEN [threw |-> TRUE, data |-> <<>>, silent |-> FALSE]
    ELSE [threw |-> FALSE,
          data |-> ResampleFill(buffer, inputRate,
                                ResampleOutputSamples(buffer, inputRate)),
          silent |-> FALSE]

(***************************************************************************)
(* resamplePCM(input, inputRate, outputRate) of the plugin entry           *)
(* ratio = outputRate / inputRate is kept as an exact fraction.            *)
(***************************************************************************)
\* 1 / ratio = inputRate / outputRate in lowest terms, PCMRateNum / PCMRateDen
PCMRateNum(inputRate, outputRate) == inputRate \div GCD(inputRate, outputRate)
PCMRateDen(inputRate, outputRate) == outputRate \div GCD(inputRate, outputRate)

\* mutant of PCMOutputSamples: the ratio inverted
PCMOutputSamples_Inverted(input, inputRate, outputRate) ==
    (Len(input) * PCMRateNum(inputRate, outputRate))
        \div (2 * PCMRateDen(inputRate, outputRate))

\* mutant of PCMOutputSamples: one frame more than the floor
PCMOutputSamples_OneMore(input, inputRate, outputRate) ==
    (Len(input) * PCMRateDen(inputRate, outputRate))
        \div (2 * PCMRateNum(inputRate, outputRate)) + 1

\* Math.floor(inputSamples * ratio) with inputSamples = length / 2
PCMOutputSamples(input, inputRate, outputRate) ==
    (Len(input) * PCMRateDen(inputRate, outputRate))
        \div (2 * PCMRateNum(inputRate, outputRate))

\* mutant of PCMInputIndex: Math.ceil in place of Math.floor
PCMInputIndex_Ceil(i, inputRate, outputRate) ==
    (i * PCMRateNum(inputRate, outputRate) + PCMRateDen(inputRate, outputRate) - 1)
        \div PCMRateDen(inputRate, outputRate)

\* Math.floor(i / ratio)
PCMInputIndex(i, inputRate, outputRate) ==
    (i * PCMRateNum(inputRate, outputRate)) \div PCMRateDen(inputRate, outputRate)

\* frac = inputPos - inputIndex, as the numerator over PCMRateDen
PCMFracNum(i, inputRate, outputRate) ==
    (i * PCMRateNum(inputRate, outputRate)) % PCMRateDen(inputRate, outputRate)

PCMThrows(input, inputRate, outputRate) ==
    \E i \in 0..(PCMOutputSamples(input, inputRate, outputRate) - 1) :
        LET inputIndex == PCMInputIndex(i, inputRate, outputRate)
        IN IF ResampleHasNext(input, inputIndex)
           THEN ~CanRead(input, inputIndex * 2)
                \/ ~CanRead(input, (inputIndex + 1) * 2)
           ELSE ResampleHasCurrent(input, inputIndex)
                /\ ~CanRead(input, inputIndex * 2)

\* mutant of PCMSample: the nearest earlier input sample, no interpolation
PCMSample_Nearest(input, inputRate, outputRate, i) ==
    LET inputIndex == PCMInputIndex(i, inputRate, outputRate)
    IN IF ResampleHasCurrent(input, inputIndex)
       THEN ReadInt16LE(input, inputIndex * 2)
       ELSE 0

\* the sample of output frame i, before the clamp
PCMSample(input, inputRate, outputRate, i) ==
    LET inputIndex == PCMInputIndex(i, inputRate, outputRate)
    IN IF ResampleHasNext(input, inputIndex)
       THEN Interpolate(ReadInt16LE(input, inputIndex * 2),
                        ReadInt16LE(input, (inputIndex + 1) * 2),
                        PCMFracNum(i, inputRate, outputRate),
                        PCMRateDen(inputRate, outputRate))
       ELSE IF ResampleHasCurrent(input, inputIndex)
            THEN ReadInt16LE(input, inputIndex * 2)
            ELSE 0

\* mutant of PCMFill: the right channel left at the zero of Buffer.alloc
RECURSIVE PCMFill_LeftOnly(_, _, _, _)
PCMFill_LeftOnly(input, inputRate, outputRate, n) ==
    IF n = 0 THEN <<>>
    ELSE LET sample == Clamp16(PCMSample(input, inputRate, outputRate, n - 1))
         IN PCMFill_LeftOnly(input, inputRate, outputRate, n - 1)
            \o WriteInt16LE(sample) \o WriteInt16LE(0)

RECURSIVE PCMFill(_, _, _, _)
PCMFill(input, inputRate, outputRate, n) ==
    IF n = 0 THEN <<>>
    ELSE LET sample == Clamp16(PCMSample(input, inputRate, outputRate, n - 1))
         IN PCMFill(input, inputRate, outputRate, n - 1)
            \o WriteInt16LE(sample) \o WriteInt16LE(sample)

ResamplePCM(input, inputRate, outputRate) ==
    IF PCMThrows(input, inputRate, outputRate)
    THEN [threw |-> TRUE, data |-> <<>>, silent |-> FALSE]
    ELSE [threw |-> FALSE,
          data |-> PCMFill(input, inputRate, outputRate,
                           PCMOutputSamples(input, inputRate, outputRate)),
          silent |-> FALSE]

(***************************************************************************)
(* playTTSResponse(guildId, text) from tts.synthesize on: the result's     *)
(* audio is resampled to 48000 Hz stereo and played.  A result is          *)
(* [audio, hasSampleRate, sampleRate].                                     *)
(***************************************************************************)
DefaultTtsSampleRate == 22050

\* mutant of TtsSampleRate: falls back to the rate of the listening side
TtsSampleRate_ListeningRate(result) ==
    IF result.hasSampleRate /\ result.sampleRate # 0 THEN result.sampleRate
    ELSE DefaultSampleRate

\* result.sampleRate || 22050: undefined and 0 both give the default
TtsSampleRate(result) ==
    IF result.hasSampleRate /\ result.sampleRate # 0 THEN result.sampleRate
    ELSE DefaultTtsSampleRate

\* the try block of playTTSResponse: a RangeError of resamplePCM is caught
\* and logged and nothing is played
PlayTTSResponse(result) ==
    LET sampleRate == TtsSampleRate(result)
        convertedAudio == ResamplePCM(result.audio, sampleRate, OutputRate)
    IN [threw |-> convertedAudio.threw,
        data |-> convertedAudio.data,
        silent |-> FALSE,
        hasSampleRate |-> result.hasSampleRate,
        sampleRate |-> sampleRate,
        played |-> ~convertedAudio.threw]

\* detectSilence as a call with an outcome
DetectSilenceCall(buffer, silenceThreshold) ==
    IF DetectSilenceThrows(buffer)
    THEN [threw |-> TRUE, data |-> <<>>, silent |-> FALSE]
    ELSE [threw |-> FALSE, data |-> <<>>,
          silent |-> DetectSilence(buffer, silenceThreshold)]

(***************************************************************************)
(* Session layer: startListening, audioBuffers, transcribeUserSpeech       *)
(*                                                                         *)
(* A pipeline is pipeline(audioStream, converter, vad) of one speaking     *)
(* 'start' event.  The stages are synchronous streams in flowing mode, so  *)
(* one Opus packet runs through decoder, downsampleAndMono, the detector   *)
(* and the 'speech-end' / 'data' handlers in one step.  The entry fields   *)
(* startTime, lastChunkTime and silenceCount are written and never read;   *)
(* they are left out.                                                      *)
(***************************************************************************)
Guilds == {"g1"}
Users == {"u1", "u2"}

\* the user whose repeated speaking starts SpecSession explores
Speakers == {"u1"}

\* bufferKey = `${guildId}-${userId}`
BufferKey(guildId, userId) == <<guildId, userId>>
Keys == {BufferKey(g, u) : g \in Guilds, u \in Users}

\* audioBuffers.get(key) of a missing key
NoEntry == [present |-> FALSE, chunks |-> <<>>]

\* { chunks: [], startTime, lastChunkTime, silenceCount: 0 }
EmptyEntry == [present |-> TRUE, chunks |-> <<>>]

\* Opus packets, named by the stereo levels they decode to
LoudPacket == [left |-> 1000, right |-> 0]
QuietPacket == [left |-> 0, right |-> 0]
PacketSet == {LoudPacket, QuietPacket}

RECURSIVE Repeat(_, _)
Repeat(bytes, n) == IF n = 0 THEN <<>> ELSE bytes \o Repeat(bytes, n - 1)

\* the 48 kHz stereo PCM the decoder yields for a packet
DecodePacket(packet) ==
    Repeat(WriteInt16LE(packet.left) \o WriteInt16LE(packet.right), DecodedFrames)

\* decoder 'data' handler: this.push(this.downsampleAndMono(pcm48k)),
\* tabulated over the packets
ConverterTable == [packet \in PacketSet |-> DownsampleAndMono(DecodePacket(packet)).data]

ConverterOutput(packet) == ConverterTable[packet]

\* sampleRate: 16000 of the detector startListening creates
ListeningSampleRate == 16000

\* Variant that leaves the key's entry in audioBuffers.
TranscribeUserSpeech_KeepEntry(buffers, calls, provider, key) ==
    IF ~buffers[key].present \/ buffers[key].chunks = <<>>
    THEN [buffers |-> buffers, calls |-> calls]
    ELSE [buffers |-> buffers,
          calls |-> IF provider
                    THEN Append(calls, [key |-> key,
                                        audio |-> Concat(buffers[key].chunks),
                                        format |-> "pcm_s16le",
                                        sampleRate |-> 16000,
                                        language |-> "en",
                                        state |-> "pending"])
                    ELSE calls]

\* mutant of TranscribeUserSpeech: the entry is removed after the await of
\* stt.transcribe, not before it (at once only when there is no provider)
TranscribeUserSpeech_DeleteAfterAwait(buffers, calls, provider, key) ==
    IF ~buffers[key].present \/ buffers[key].chunks = <<>>
    THEN [buffers |-> buffers, calls |-> calls]
    ELSE IF ~provider
    THEN [buffers |-> [buffers EXCEPT ![key] = NoEntry], calls |-> calls]
    ELSE [buffers |-> buffers,
          calls |-> Append(calls, [key |-> key,
                                   audio |-> Concat(buffers[key].chunks),
                                   format |-> "pcm_s16le",
                                   sampleRate |-> 16000,
                                   language |-> "en",
                                   state |-> "pending"])]

\* transcribeUserSpeech up to its first await: [buffers, calls] afterwards
TranscribeUserSpeech(buffers, calls, provider, key) ==
    IF ~buffers[key].present \/ buffers[key].chunks = <<>>
    THEN [buffers |-> buffers, calls |-> calls]
    ELSE LET audioPCM == Concat(buffers[key].chunks)
         IN [buffers |-> [buffers EXCEPT ![key] = NoEntry],
             calls |-> IF provider
                       THEN Append(calls, [key |-> key, audio |-> audioPCM,
                                           format |-> "pcm_s16le",
                                           sampleRate |-> 16000,
                                           language |-> "en",
                                           state |-> "pending"])
                       ELSE calls]

\* vad.on("data"): push the chunk on the key's entry if there is one
OnVadData(buffers, key, chunk) ==
    IF buffers[key].present
    THEN [buffers EXCEPT ![key].chunks = Append(@, chunk)]
    ELSE buffers

\* Variant in which the 'data' handler runs before the event handlers.
RunHandlers_DataFirst(buffers, calls, provider, key, r) ==
    LET d == IF r.pushed = <<>> THEN buffers
             ELSE OnVadData(buffers, key, r.pushed[1])
        t == IF r.emitted = <<"speech-end">>
             THEN TranscribeUserSpeech(d, calls, provider, key)
             ELSE [buffers |-> d, calls |-> calls]
    IN [afterEvents |-> t.buffers, buffers |-> t.buffers, calls |-> t.calls]

\* the handlers run for one detector _transform: the event handlers first
\* (emit precedes push in _transform), then the 'data' handler.
\* 'speech-start' only logs.
RunHandlers(buffers, calls, provider, key, r) ==
    LET t == IF r.emitted = <<"speech-end">>
             THEN TranscribeUserSpeech(buffers, calls, provider, key)
             ELSE [buffers |-> buffers, calls |-> calls]
    IN [afterEvents |-> t.buffers,
        buffers |-> IF r.pushed = <<>> THEN t.buffers
                    ELSE OnVadData(t.buffers, key, r.pushed[1]),
        calls |-> t.calls]

\* audioBuffers.set(bufferKey, { chunks: [], ... }) of startListening
CreateBuffer(buffers, key) == [buffers EXCEPT ![key] = EmptyEntry]

NoSessionOp ==
    [op |-> "init", pipe |-> 0, key |-> <<>>, chunk |-> <<>>, emitted |-> <<>>,
     transcribed |-> FALSE, before |-> [k \in Keys |-> NoEntry],
     tBefore |-> [k \in Keys |-> NoEntry], tAfter |-> [k \in Keys |-> NoEntry],
     preCalls |-> 0, speaking |-> FALSE, pipesBefore |-> <<>>,
     outcome |-> "none", call |-> 0,
     stt |-> [kind |-> "null", text |-> <<>>], injected |-> FALSE,
     synthesized |-> FALSE]

\* the session layer idle (for the specifications that do not use it)
InitSessionIdle ==
    /\ config = [vadThreshold |-> DefaultSilenceThreshold,
                 vadSilenceMs |-> DefaultSilenceDurationMs]
    /\ sttProvider = TRUE
    /\ pipes = <<>>
    /\ audioBuffers = [k \in Keys |-> NoEntry]
    /\ sttCalls = <<>>
    /\ slast = NoSessionOp

\* configurations of the session runs: speech ends after 1 ms or 2 ms of
\* silence (one or two 1 ms chunks)
SessionConfigs ==
    {[vadThreshold |-> DefaultSilenceThreshold, vadSilenceMs |-> ms] : ms \in {1, 2}}

PacketsReceived ==
    LET RECURSIVE Sum(_)
        Sum(n) == IF n = 0 THEN 0 ELSE Sum(n - 1) + Len(pipes[n].arrived)
    IN Sum(Len(pipes))

\* a pipeline whose streams are neither ended nor destroyed
Live(pipe) == ~pipe.ended /\ ~pipe.destroyed

\* receiver.speaking.on("start", userId): subscribe, converter, detector,
\* buffer entry, handlers, pipeline
SpeakingStart(guildId, userId, maxPipes) ==
    /\ Len(pipes) < maxPipes
    /\ LET key == BufferKey(guildId, userId)
       IN /\ pipes' = Append(pipes,
                        [key |-> key,
                         vad |-> NewVAD(config.vadThreshold, config.vadSilenceMs,
                                        ListeningSampleRate),
                         ended |-> FALSE,
                         destroyed |-> FALSE,
                         arrived |-> <<>>,
                         events |-> <<>>,
                         held |-> <<>>,
                         late |-> 0])
          /\ audioBuffers' = CreateBuffer(audioBuffers, key)
          /\ slast' = [NoSessionOp EXCEPT !.op = "speaking-start",
                         !.pipe = Len(pipes) + 1, !.key = key,
                         !.before = audioBuffers, !.preCalls = Len(sttCalls),
                         !.pipesBefore = pipes]
    /\ UNCHANGED <<config, sttProvider, sttCalls>>

\* audioStream 'data' of pipeline p: one packet through converter, detector
\* and handlers
Packet(p, packet, maxPackets) ==
    /\ p \in 1..Len(pipes)
    /\ Live(pipes[p])
    /\ pipes[p].held = <<>>
    /\ PacketsReceived < maxPackets
    /\ LET key == pipes[p].key
           chunk == ConverterOutput(packet)
           r == VADTransform(pipes[p].vad, chunk)
           h == RunHandlers(audioBuffers, sttCalls, sttProvider, key, r)
       IN /\ pipes' = [pipes EXCEPT ![p].vad = r.vad,
                                    ![p].arrived = Append(@, packet),
                                    ![p].events = @ \o r.emitted]
          /\ audioBuffers' = h.buffers
          /\ sttCalls' = h.calls
          /\ slast' = [op |-> "packet", pipe |-> p, key |-> key, chunk |-> chunk,
                       emitted |-> r.emitted,
                       transcribed |-> r.emitted = <<"speech-end">>,
                       before |-> audioBuffers,
                       tBefore |-> audioBuffers, tAfter |-> h.afterEvents,
                       preCalls |-> Len(sttCalls),
                       speaking |-> r.vad.isSpeaking,
                       pipesBefore |-> pipes, outcome |-> "none"]
    /\ UNCHANGED <<config, sttProvider>>

\* audioStream 'data' of pipeline p with a decoder that emits its output
\* after the write has returned: the converter has the packet, the decoder
\* holds the decoded chunk (pipes[p].held, in order)
PacketHeld(p, packet, maxPackets) ==
    /\ p \in 1..Len(pipes)
    /\ Live(pipes[p])
    /\ PacketsReceived < maxPackets
    /\ pipes' = [pipes EXCEPT ![p].arrived = Append(@, packet),
                              ![p].held = Append(@, ConverterOutput(packet))]
    /\ slast' = [NoSessionOp EXCEPT !.op = "packet-held", !.pipe = p,
                    !.key = pipes[p].key, !.before = audioBuffers,
                    !.preCalls = Len(sttCalls), !.pipesBefore = pipes]
    /\ UNCHANGED <<config, sttProvider, audioBuffers, sttCalls>>

\* audioStream 'end' of pipeline p: transcribe what the key's entry holds
StreamEnd(p) ==
    /\ p \in 1..Len(pipes)
    /\ Live(pipes[p])
    /\ LET key == pipes[p].key
           t == TranscribeUserSpeech(audioBuffers, sttCalls, sttProvider, key)
       IN /\ pipes' = [pipes EXCEPT ![p].ended = TRUE]
          /\ audioBuffers' = t.buffers
          /\ sttCalls' = t.calls
          /\ slast' = [NoSessionOp EXCEPT !.op = "stream-end", !.pipe = p,
                         !.key = key, !.transcribed = TRUE,
                         !.before = audioBuffers,
                         !.tBefore = audioBuffers, !.tAfter = t.buffers,
                         !.preCalls = Len(sttCalls),
                         !.speaking = pipes[p].vad.isSpeaking,
                         !.pipesBefore = pipes]
    /\ UNCHANGED <<config, sttProvider>>

\* Variant of the pipeline teardown that destroys every pipeline.
TearDown_All(ps, p) == [q \in 1..Len(ps) |-> [ps[q] EXCEPT !.destroyed = TRUE]]

\* pipeline(audioStream, converter, vad, cb) on an 'error' of one of its
\* streams: the three streams of that pipeline are destroyed
TearDown(ps, p) == [ps EXCEPT ![p].destroyed = TRUE]

\* the decoder of pipeline p emits 'data' for the oldest chunk it holds.
\* While the pipeline runs the chunk goes through the detector and the
\* handlers.  After the audio stream's 'end' (pipes[p].late counts these):
\* lost = FALSE, the converter has not been flushed yet and the chunk still
\* goes through; lost = TRUE, the converter has ended, this.push fails and
\* the pipeline is torn down.
DecoderData(p, lost) ==
    /\ p \in 1..Len(pipes)
    /\ ~pipes[p].destroyed
    /\ pipes[p].held # <<>>
    /\ lost => pipes[p].ended
    /\ LET key == pipes[p].key
           chunk == Head(pipes[p].held)
           late == IF pipes[p].ended THEN pipes[p].late + 1 ELSE pipes[p].late
           r == VADTransform(pipes[p].vad, chunk)
           h == RunHandlers(audioBuffers, sttCalls, sttProvider, key, r)
       IN IF lost
          THEN /\ pipes' = TearDown([pipes EXCEPT ![p].held = Tail(@),
                                                  ![p].late = late], p)
               /\ slast' = [NoSessionOp EXCEPT !.op = "decoder-data",
                               !.pipe = p, !.key = key, !.chunk = chunk,
                               !.before = audioBuffers,
                               !.preCalls = Len(sttCalls),
                               !.pipesBefore = pipes]
               /\ UNCHANGED <<audioBuffers, sttCalls>>
          ELSE /\ pipes' = [pipes EXCEPT ![p].vad = r.vad,
                                         ![p].events = @ \o r.emitted,
                                         ![p].held = Tail(@),
                                         ![p].late = late]
               /\ audioBuffers' = h.buffers
               /\ sttCalls' = h.calls
               /\ slast' = [NoSessionOp EXCEPT !.op = "decoder-data",
                               !.pipe = p, !.key = key, !.chunk = chunk,
                               !.emitted = r.emitted,
                               !.transcribed = (r.emitted = <<"speech-end">>),
                               !.before = audioBuffers,
                               !.tBefore = audioBuffers,
                               !.tAfter = h.afterEvents,
                               !.preCalls = Len(sttCalls),
                               !.speaking = r.vad.isSpeaking,
                               !.pipesBefore = pipes]
    /\ UNCHANGED <<config, sttProvider>>

\* the converter of pipeline p emits 'error' (a codec error): the handler
\* logs, the pipeline is torn down; the audio stream emits no 'end'
PipelineError(p) ==
    /\ p \in 1..Len(pipes)
    /\ Live(pipes[p])
    /\ pipes' = TearDown(pipes, p)
    /\ slast' = [NoSessionOp EXCEPT !.op = "codec-error", !.pipe = p,
                    !.key = pipes[p].key, !.before = audioBuffers,
                    !.preCalls = Len(sttCalls), !.pipesBefore = pipes]
    /\ UNCHANGED <<config, sttProvider, audioBuffers, sttCalls>>

\* how an utterance handed to stt.transcribe ends: the response is played,
\* the transcript is empty, there is nothing to play it with, or
\* stt.transcribe / ctx.inject / tts.synthesize rejects
FailureOutcomes == {"stt-rejected", "inject-rejected", "tts-rejected"}
SettleOutcomes == {"played", "empty-transcript", "not-played"} \cup FailureOutcomes

\* what stt.transcribe settles with: a rejection, null / undefined, or a
\* string, as the sequence of its characters
Whitespace == {" ", "\t"}
SttResults ==
    {[kind |-> "rejected", text |-> <<>>], [kind |-> "null", text |-> <<>>]}
    \cup {[kind |-> "text", text |-> t] :
             t \in {<<>>, <<" ">>, <<"\t", " ">>, <<"h", "i">>, <<" ", "h", " ">>}}

\* what playTTSResponse meets: no player or no TTS provider, a rejected
\* tts.synthesize, or a synthesis that is played
TtsResults == {"unavailable", "rejected", "ok"}

\* String.prototype.trim
RECURSIVE TrimStart(_)
TrimStart(text) ==
    IF text # <<>> /\ Head(text) \in Whitespace THEN TrimStart(Tail(text))
    ELSE text

RECURSIVE TrimEnd(_)
TrimEnd(text) ==
    IF text # <<>> /\ text[Len(text)] \in Whitespace
    THEN TrimEnd(SubSeq(text, 1, Len(text) - 1))
    ELSE text

Trim(text) == TrimEnd(TrimStart(text))

\* mutant of IsEmptyTranscript: without the trim
IsEmptyTranscript_NoTrim(stt) ==
    stt.kind = "null" \/ Len(stt.text) = 0

\* !transcript || transcript.trim().length === 0
IsEmptyTranscript(stt) ==
    stt.kind = "null" \/ Len(stt.text) = 0 \/ Len(Trim(stt.text)) = 0

\* the rest of transcribeUserSpeech once stt.transcribe has settled:
\* whether ctx.inject and tts.synthesize were called, and how it ended
AfterTranscribe(stt, injectOk, tts) ==
    IF stt.kind = "rejected"
    THEN [outcome |-> "stt-rejected", injected |-> FALSE, synthesized |-> FALSE]
    ELSE IF IsEmptyTranscript(stt)
    THEN [outcome |-> "empty-transcript", injected |-> FALSE,
          synthesized |-> FALSE]
    ELSE IF ~injectOk
    THEN [outcome |-> "inject-rejected", injected |-> TRUE, synthesized |-> FALSE]
    ELSE IF tts = "unavailable"
    THEN [outcome |-> "not-played", injected |-> TRUE, synthesized |-> FALSE]
    ELSE IF tts = "rejected"
    THEN [outcome |-> "tts-rejected", injected |-> TRUE, synthesized |-> TRUE]
    ELSE [outcome |-> "played", injected |-> TRUE, synthesized |-> TRUE]

\* transcribeUserSpeech after its awaits, for call i: a rejection is caught
\* and logged (catch of transcribeUserSpeech, catch of playTTSResponse)
Settle(i, stt, injectOk, tts) ==
    /\ i \in 1..Len(sttCalls)
    /\ sttCalls[i].state = "pending"
    /\ LET r == AfterTranscribe(stt, injectOk, tts)
       IN /\ sttCalls' = [sttCalls EXCEPT ![i].state =
                             IF r.outcome \in FailureOutcomes THEN "failed"
                             ELSE "done"]
          /\ slast' = [NoSessionOp EXCEPT !.op = "settle",
                          !.key = sttCalls[i].key, !.before = audioBuffers,
                          !.preCalls = Len(sttCalls), !.pipesBefore = pipes,
                          !.outcome = r.outcome, !.call = i, !.stt = stt,
                          !.injected = r.injected,
                          !.synthesized = r.synthesized]
    /\ UNCHANGED <<config, sttProvider, pipes, audioBuffers>>

(***************************************************************************)
(* joinChannel and leaveChannel of the plugin entry                        *)
(*                                                                         *)
(* joinVoiceChannel of @discordjs/voice keeps one connection per guild: it *)
(* returns the guild's connection if it has one that is not destroyed, and *)
(* creates one otherwise.  A connection is [guildId, status, players,      *)
(* listening]: the players subscribed to it so far, and the number of      *)
(* startListening calls made on it.  joinChannel awaits entersState(Ready, *)
(* 30 s), so a call is two steps: up to the await, and after it.           *)
(***************************************************************************)
JoinGuilds == {"g1", "g2"}

NoJoinOp ==
    [op |-> "init", call |-> 0, guildId |-> "g1", connection |-> 0,
     playersBefore |-> 0, listeningBefore |-> 0]

InitJoinIdle ==
    /\ connections = [g \in JoinGuilds |-> 0]
    /\ audioPlayers = [g \in JoinGuilds |-> 0]
    /\ voiceConnections = <<>>
    /\ players = 0
    /\ joinCalls = <<>>
    /\ jlast = NoJoinOp

\* getVoiceConnection(guildId): the guild's connection that is not
\* destroyed, 0 if there is none
GetVoiceConnection(conns, guildId) ==
    LET live == {c \in 1..Len(conns) :
                    conns[c].guildId = guildId /\ conns[c].status # "destroyed"}
    IN IF live = {} THEN 0 ELSE CHOOSE c \in live : \A d \in live : c <= d

\* joinVoiceChannel({channelId, guildId, ...}): [conns, connection]
JoinVoiceChannel(conns, guildId) ==
    LET existing == GetVoiceConnection(conns, guildId)
    IN IF existing # 0 THEN [conns |-> conns, connection |-> existing]
       ELSE [conns |-> Append(conns, [guildId |-> guildId,
                                      status |-> "signalling",
                                      players |-> <<>>,
                                      listening |-> 0]),
             connection |-> Len(conns) + 1]

\* startListening calls made on connections so far
Listening ==
    LET RECURSIVE Sum(_)
        Sum(n) == IF n = 0 THEN 0 ELSE Sum(n - 1) + voiceConnections[n].listening
    IN Sum(Len(voiceConnections))

\* joinChannel(guildId, ...) up to its await: the existing connection is
\* returned, or joinVoiceChannel is called and the call waits for Ready
JoinChannel(guildId) ==
    /\ Len(joinCalls) < MaxJoinCalls
    /\ IF connections[guildId] # 0
       THEN /\ joinCalls' = Append(joinCalls,
                                [guildId |-> guildId,
                                 connection |-> connections[guildId],
                                 state |-> "returned-existing"])
            /\ UNCHANGED voiceConnections
       ELSE LET j == JoinVoiceChannel(voiceConnections, guildId)
            IN /\ voiceConnections' = j.conns
               /\ joinCalls' = Append(joinCalls,
                                   [guildId |-> guildId,
                                    connection |-> j.connection,
                                    state |-> "awaiting"])
    /\ jlast' = [op |-> "join", call |-> Len(joinCalls) + 1,
                 guildId |-> guildId, connection |-> joinCalls'[Len(joinCalls) + 1].connection,
                 playersBefore |-> players, listeningBefore |-> Listening]
    /\ UNCHANGED <<connections, audioPlayers, players>>

\* joinChannel after entersState has resolved, as a function of the join
\* state js = [connections, audioPlayers, voiceConnections, players,
\* joinCalls]: createAudioPlayer, connection.subscribe(player), the
\* handlers, connections.set, audioPlayers.set, startListening
JoinChannelReady(js, i) ==
    LET c == js.joinCalls[i].connection
        guildId == js.joinCalls[i].guildId
        player == js.players + 1
    IN [connections |-> [js.connections EXCEPT ![guildId] = c],
        audioPlayers |-> [js.audioPlayers EXCEPT ![guildId] = player],
        voiceConnections |-> [js.voiceConnections EXCEPT
                                 ![c].players = Append(@, player),
                                 ![c].listening = @ + 1],
        players |-> player,
        joinCalls |-> [js.joinCalls EXCEPT ![i].state = "returned"]]

\* the calls 1..n that await connection c continue, in the order they
\* were made
RECURSIVE ResumeAwaiting(_, _, _)
ResumeAwaiting(js, c, n) ==
    IF n = 0 THEN js
    ELSE LET before == ResumeAwaiting(js, c, n - 1)
         IN IF before.joinCalls[n].connection = c
               /\ before.joinCalls[n].state = "awaiting"
            THEN JoinChannelReady(before, n)
            ELSE before

\* the voice connection reaches the Ready state: every entersState promise
\* waiting for it resolves, and the calls continue one after the other
\* before anything else runs
ConnectionReady(c) ==
    /\ c \in 1..Len(voiceConnections)
    /\ voiceConnections[c].status = "signalling"
    /\ LET js == ResumeAwaiting(
                    [connections |-> connections,
                     audioPlayers |-> audioPlayers,
                     voiceConnections |->
                         [voiceConnections EXCEPT ![c].status = "ready"],
                     players |-> players,
                     joinCalls |-> joinCalls], c, Len(joinCalls))
       IN /\ connections' = js.connections
          /\ audioPlayers' = js.audioPlayers
          /\ voiceConnections' = js.voiceConnections
          /\ players' = js.players
          /\ joinCalls' = js.joinCalls
    /\ jlast' = [NoJoinOp EXCEPT !.op = "ready", !.connection = c,
                    !.guildId = voiceConnections[c].guildId,
                    !.playersBefore = players, !.listeningBefore = Listening]

\* joinChannel after entersState has rejected (no Ready within 30 s; the
\* timers of earlier calls fire first): the catch calls
\* connection.destroy() and rethrows; destroy() itself throws on a
\* connection that is already destroyed
JoinChannelTimeout(i) ==
    /\ i \in 1..Len(joinCalls)
    /\ joinCalls[i].state = "awaiting"
    /\ \A k \in 1..(i - 1) : joinCalls[k].state # "awaiting"
    /\ LET c == joinCalls[i].connection
       IN /\ IF voiceConnections[c].status = "destroyed"
             THEN /\ joinCalls' = [joinCalls EXCEPT ![i].state = "threw-in-destroy"]
                  /\ UNCHANGED voiceConnections
             ELSE /\ joinCalls' = [joinCalls EXCEPT ![i].state = "threw"]
                  /\ voiceConnections' =
                         [voiceConnections EXCEPT ![c].status = "destroyed"]
          /\ jlast' = [op |-> "timeout", call |-> i,
                       guildId |-> joinCalls[i].guildId, connection |-> c,
                       playersBefore |-> players, listeningBefore |-> Listening]
    /\ UNCHANGED <<connections, audioPlayers, players>>

\* leaveChannel(guildId)
LeaveChannel(guildId) ==
    /\ connections[guildId] # 0
    /\ voiceConnections' = [voiceConnections EXCEPT
                              ![connections[guildId]].status = "destroyed"]
    /\ connections' = [connections EXCEPT ![guildId] = 0]
    /\ audioPlayers' = [audioPlayers EXCEPT ![guildId] = 0]
    /\ jlast' = [NoJoinOp EXCEPT !.op = "leave", !.guildId = guildId,
                    !.connection = connections[guildId],
                    !.playersBefore = players, !.listeningBefore = Listening]
    /\ UNCHANGED <<players, joinCalls>>

(***************************************************************************)
(* One converter stage: OpusToPCMConverter or PCMToOpusConverter           *)
(*                                                                         *)
(* The stage is a Transform that owns a codec (prism decoder or encoder).  *)
(* _transform writes the chunk to the codec and calls back at once; the    *)
(* codec's 'data' handler pushes to the stage; the codec's 'error' handler *)
(* emits 'error' on the stage; _destroy destroys the codec.  Chunks are    *)
(* named by the number of the write that brought them.  The codec emits    *)
(* its output within the write or holds it and emits it later.             *)
(***************************************************************************)
StageKinds == {"OpusToPCMConverter", "PCMToOpusConverter"}

NewStage(kind) ==
    [kind |-> kind,
     destroyed |-> FALSE,        \* stage.destroyed
     codecDestroyed |-> FALSE,   \* decoder / encoder destroyed
     codecHeld |-> <<>>,         \* codec output not yet emitted as 'data'
     readable |-> <<>>,          \* pushed to the stage, not yet taken downstream
     delivered |-> <<>>,         \* 'data' of the stage, in order
     flowing |-> TRUE,           \* the consumer takes data as it comes
     callbackHeld |-> FALSE,     \* the Transform holds the write callback
     writes |-> 0,               \* chunks _transform was called with
     codecErrors |-> <<>>,       \* 'error' events of the codec, in order
     errors |-> <<>>,            \* 'error' events of the stage, in order
     deliveredAtDestroy |-> 0,   \* Len(delivered) when destroy() ran
     ended |-> FALSE,            \* _flush has called back: push(null) is done
     codecEnded |-> FALSE,       \* decoder.end() / encoder.end() was called
     eofErrors |-> 0,            \* this.push(chunk) calls made after push(null)
     op |-> "new"]               \* the last operation

InitStageIdle == stage = NewStage("OpusToPCMConverter")

\* Variant of _destroy that leaves the codec alone.
DestroyCodec_Keep(st) == st

\* _destroy: this.decoder.destroy() / this.encoder.destroy()
DestroyCodec(st) == [st EXCEPT !.codecDestroyed = TRUE]

\* stream.destroy(): _destroy runs, the readable buffer is discarded
Destroyed(st) ==
    [DestroyCodec(st) EXCEPT !.destroyed = TRUE,
                             !.readable = <<>>,
                             !.callbackHeld = FALSE,
                             !.deliveredAtDestroy = Len(st.delivered)]

\* Readable.push(chunk) on the stage: dropped once the stage is destroyed;
\* after push(null) it raises ERR_STREAM_PUSH_AFTER_EOF, which destroys the
\* stage; else handed to a flowing consumer when nothing is buffered,
\* buffered otherwise
StagePush(st, chunk) ==
    IF st.destroyed THEN st
    ELSE IF st.ended
         THEN Destroyed([st EXCEPT !.eofErrors = @ + 1])
    ELSE IF st.flowing /\ st.readable = <<>>
         THEN [st EXCEPT !.delivered = Append(@, chunk)]
         ELSE [st EXCEPT !.readable = Append(@, chunk)]

\* Variant of the codec 'data' handler that pushes nothing.
OnCodecData_Drop(st, chunk) == st

\* decoder.on("data", pcm48k => this.push(this.downsampleAndMono(pcm48k)))
\* encoder.on("data", opus => this.push(opus))
OnCodecData(st, chunk) == StagePush(st, chunk)

\* Variant of the codec 'error' handler that only logs.
OnCodecError_Swallow(st, err) == st

\* decoder.on("error", err => this.emit("error", err)), the same for encoder
OnCodecError(st, err) == [st EXCEPT !.errors = Append(@, err)]

\* the Transform after _transform has called back: the next write is taken
\* unless this write grew the readable buffer to the high-water mark
AfterTransform(before, st) ==
    [st EXCEPT !.callbackHeld =
        /\ Len(st.readable) # Len(before.readable)
        /\ Len(st.readable) >= HighWaterMark]

\* stage.write(chunk) -> _transform: codec.write(chunk); callback().
\* now: the codec emits the output within the write.
StageWrite(now) ==
    /\ ~stage.destroyed
    /\ ~stage.ended
    /\ ~stage.callbackHeld
    /\ stage.writes < MaxStageWrites
    /\ now => stage.codecHeld = <<>>
    /\ LET chunk == stage.writes + 1
           taken == [stage EXCEPT !.writes = chunk, !.op = "write"]
           coded == IF now THEN OnCodecData(taken, chunk)
                    ELSE [taken EXCEPT !.codecHeld = Append(@, chunk)]
       IN stage' = AfterTransform(stage, coded)

\* the codec emits 'data' for the oldest output it holds
CodecData ==
    /\ stage.codecHeld # <<>>
    /\ stage' = [OnCodecData([stage EXCEPT !.codecHeld = Tail(@)],
                             Head(stage.codecHeld))
                 EXCEPT !.op = "codec-data"]

\* the codec emits 'error'; errors are named by their number
CodecError ==
    /\ ~stage.codecDestroyed
    /\ Len(stage.codecErrors) < MaxCodecErrors
    /\ LET err == Len(stage.codecErrors) + 1
       IN stage' = [OnCodecError([stage EXCEPT !.codecErrors = Append(@, err)], err)
                    EXCEPT !.op = "codec-error"]

\* the consumer stops taking data (pause, or its own buffer is full)
ConsumerPause ==
    /\ ~stage.destroyed
    /\ stage.flowing
    /\ stage' = [stage EXCEPT !.flowing = FALSE, !.op = "pause"]

\* the consumer takes data again: the buffered chunks are delivered and
\* _read releases a held write callback
ConsumerResume ==
    /\ ~stage.destroyed
    /\ ~stage.flowing
    /\ stage' = [stage EXCEPT !.flowing = TRUE,
                              !.delivered = @ \o stage.readable,
                              !.readable = <<>>,
                              !.callbackHeld = FALSE,
                              !.op = "resume"]

\* stage.destroy()
StageDestroy ==
    /\ ~stage.destroyed
    /\ stage' = [Destroyed(stage) EXCEPT !.op = "destroy"]

\* stage.end() once the writes have called back -> _flush:
\* codec.end(); callback(), upon which the Transform pushes null.  The codec
\* still emits the output it holds.
StageEnd ==
    /\ ~stage.destroyed
    /\ ~stage.ended
    /\ ~stage.callbackHeld
    /\ stage' = [stage EXCEPT !.codecEnded = TRUE, !.ended = TRUE, !.op = "end"]

\* the consumer has taken everything up to the end: 'end' is emitted and the
\* stage, finished and ended, destroys itself (autoDestroy)
StageClose ==
    /\ stage.ended
    /\ ~stage.destroyed
    /\ stage.flowing
    /\ stage.readable = <<>>
    /\ stage' = [Destroyed(stage) EXCEPT !.op = "close"]

(***************************************************************************)
(* Spec: one detector under write() and reset()                            *)
(***************************************************************************)
\* int16 sample values the written chunks are made of: silence, and a
\* negative sample whose magnitude equals the default threshold
SampleValues == {0, -500}

\* samples per written chunk: empty, one sample, two samples
ChunkSamples == {0, 1, 2}

\* PCM chunks (even byte length, data model invariant) written to the detector
ChunkSet == {EncodeSamples(s) : s \in UNION {[1..k -> SampleValues] : k \in ChunkSamples}}

\* detector options of the run: 2 bytes per sample at 500 Hz is 1 byte per ms
SampleRates == {500}
SilenceDurations == {4, 8}

\* nothing observed yet
NoOp ==
    [op |-> "init", chunk |-> <<>>, pre |-> NewVAD(0, 0, 0), emitted |-> <<>>,
     pushed |-> <<>>, preEvents |-> 0, wasAfterReset |-> FALSE,
     afterReset |-> FALSE]

InitFn ==
    /\ fnIn = <<>>
    /\ fnRate = DefaultSampleRate
    /\ fnOutRate = OutputRate
    /\ fnOp = "none"
    /\ fnOut = [threw |-> FALSE, data |-> <<>>, silent |-> FALSE]

Init ==
    /\ \E sr \in SampleRates, ms \in SilenceDurations :
          vad = NewVAD(DefaultSilenceThreshold, ms, sr)
    /\ written = <<>>
    /\ output = <<>>
    /\ events = <<>>
    /\ last = NoOp
    /\ InitFn
    /\ InitSessionIdle
    /\ InitStageIdle
    /\ InitJoinIdle

\* vad.write(chunk).  last.afterReset: reset() was called and no speech-start
\* has been emitted since.
Write(chunk) ==
    /\ Len(written) < MaxWrites
    /\ LET r == VADTransform(vad, chunk)
       IN /\ vad' = r.vad
          /\ written' = Append(written, chunk)
          /\ output' = output \o r.pushed
          /\ events' = events \o r.emitted
          /\ last' = [op |-> "write", chunk |-> chunk, pre |-> vad,
                      emitted |-> r.emitted, pushed |-> r.pushed,
                      preEvents |-> Len(events),
                      wasAfterReset |-> last.afterReset,
                      afterReset |-> last.afterReset
                                     /\ r.emitted # <<"speech-start">>]
    /\ UNCHANGED fnVars
    /\ UNCHANGED sessionVars
    /\ UNCHANGED stageVars
    /\ UNCHANGED joinVars

\* vad.reset()
Reset ==
    /\ vad' = VADReset(vad)
    /\ last' = [op |-> "reset", chunk |-> <<>>, pre |-> vad,
                emitted |-> <<>>, pushed |-> <<>>,
                preEvents |-> Len(events),
                wasAfterReset |-> last.afterReset,
                afterReset |-> TRUE]
    /\ UNCHANGED <<written, output, events>>
    /\ UNCHANGED fnVars
    /\ UNCHANGED sessionVars
    /\ UNCHANGED stageVars
    /\ UNCHANGED joinVars

Next ==
    \/ \E chunk \in ChunkSet : Write(chunk)
    \/ Reset

Spec == Init /\ [][Next]_vars

(***************************************************************************)
(* SpecWrites: one detector under writes only, reset() never called        *)
(***************************************************************************)
NextWrites == \E chunk \in ChunkSet : Write(chunk)

SpecWrites == Init /\ [][NextWrites]_vars

(***************************************************************************)
(* SpecFn: the buffer functions applied once to a bounded input            *)
(***************************************************************************)
\* sample values of the inputs: the int16 extremes and -1
FnSampleValues == {-32768, -1, 32767}

\* input rates of the PCMToOpusConverter under test (resampleRatio 3, 2, 1)
FnRates == {16000, 24000, 48000}

\* buffers of every byte length up to MaxBufLen: whole samples, and for the
\* odd lengths a last sample cut after its low byte
FnBuffers ==
    UNION {{SubSeq(EncodeSamples(smp), 1, n) :
               smp \in [1..((n + 1) \div 2) -> FnSampleValues]} :
           n \in 0..MaxBufLen}

InitVAD ==
    /\ vad = NewVAD(DefaultSilenceThreshold, DefaultSilenceDurationMs,
                    DefaultSampleRate)
    /\ written = <<>>
    /\ output = <<>>
    /\ events = <<>>
    /\ last = NoOp

InitFnSpec ==
    /\ InitVAD
    /\ fnIn \in FnBuffers
    /\ fnRate \in FnRates
    /\ fnOutRate = OutputRate
    /\ fnOp = "none"
    /\ fnOut = [threw |-> FALSE, data |-> <<>>, silent |-> FALSE]
    /\ InitSessionIdle
    /\ InitStageIdle
    /\ InitJoinIdle

CallDownsample ==
    /\ fnOp = "none"
    /\ fnOp' = "downsampleAndMono"
    /\ fnOut' = DownsampleAndMono(fnIn)
    /\ UNCHANGED <<fnIn, fnRate, fnOutRate>>
    /\ UNCHANGED vadVars
    /\ UNCHANGED sessionVars
    /\ UNCHANGED stageVars
    /\ UNCHANGED joinVars

CallResample ==
    /\ fnOp = "none"
    /\ fnOp' = "resampleAndStereo"
    /\ fnOut' = ResampleAndStereo(fnIn, fnRate)
    /\ UNCHANGED <<fnIn, fnRate, fnOutRate>>
    /\ UNCHANGED vadVars
    /\ UNCHANGED sessionVars
    /\ UNCHANGED stageVars
    /\ UNCHANGED joinVars

CallDetectSilence ==
    /\ fnOp = "none"
    /\ fnOp' = "detectSilence"
    /\ fnOut' = DetectSilenceCall(fnIn, DefaultSilenceThreshold)
    /\ UNCHANGED <<fnIn, fnRate, fnOutRate>>
    /\ UNCHANGED vadVars
    /\ UNCHANGED sessionVars
    /\ UNCHANGED stageVars
    /\ UNCHANGED joinVars

\* output rates handed to resamplePCM: the 48000 of playTTSResponse, and a
\* lower one
PCMOutputRates == {OutputRate, DefaultSampleRate}

CallResamplePCM ==
    /\ fnOp = "none"
    /\ \E outputRate \in PCMOutputRates :
          /\ fnOutRate' = outputRate
          /\ fnOut' = ResamplePCM(fnIn, fnRate, outputRate)
    /\ fnOp' = "resamplePCM"
    /\ UNCHANGED <<fnIn, fnRate>>
    /\ UNCHANGED vadVars
    /\ UNCHANGED sessionVars
    /\ UNCHANGED stageVars
    /\ UNCHANGED joinVars

\* playTTSResponse with a synthesis result of audio fnIn, with the sample
\* rate fnRate or without one
CallPlayTTS ==
    /\ fnOp = "none"
    /\ \E hasSampleRate \in BOOLEAN :
          fnOut' = PlayTTSResponse(
                       [audio |-> fnIn, hasSampleRate |-> hasSampleRate,
                        sampleRate |-> IF hasSampleRate THEN fnRate ELSE 0])
    /\ fnOp' = "playTTSResponse"
    /\ UNCHANGED <<fnIn, fnRate, fnOutRate>>
    /\ UNCHANGED vadVars
    /\ UNCHANGED sessionVars
    /\ UNCHANGED stageVars
    /\ UNCHANGED joinVars

\* decoder outputs that come before the one under test: two stereo frames
\* (no whole group), and four (one group and a trailing frame)
FirstChunks ==
    {EncodeSamples(<<32767, 32767, 32767, 32767>>),
     EncodeSamples(<<32767, 32767, -1, -1, -1, -1, 32767, 32767>>)}

\* one converter, two 'data' events of its decoder: first, then fnIn
CallConverter ==
    /\ fnOp = "none"
    /\ \E first \in FirstChunks :
          LET pushes == ConverterPushes(<<first, fnIn>>)
          IN fnOut' = [threw |-> FALSE, data |-> pushes[2], silent |-> FALSE,
                       first |-> first, pushes |-> pushes]
    /\ fnOp' = "converter"
    /\ UNCHANGED <<fnIn, fnRate, fnOutRate>>
    /\ UNCHANGED vadVars
    /\ UNCHANGED sessionVars
    /\ UNCHANGED stageVars
    /\ UNCHANGED joinVars

NextFn ==
    \/ CallDownsample
    \/ CallResample
    \/ CallResamplePCM
    \/ CallDetectSilence
    \/ CallPlayTTS
    \/ CallConverter

SpecFn == InitFnSpec /\ [][NextFn]_vars

(***************************************************************************)
(* SpecSession: repeated speaking starts of one user of a guild            *)
(***************************************************************************)
InitSession ==
    /\ InitVAD
    /\ InitFn
    /\ config \in SessionConfigs
    /\ sttProvider \in BOOLEAN
    /\ pipes = <<>>
    /\ audioBuffers = [k \in Keys |-> NoEntry]
    /\ sttCalls = <<>>
    /\ slast = NoSessionOp
    /\ InitStageIdle
    /\ InitJoinIdle

NextSession ==
    \/ /\ \E g \in Guilds, u \in Speakers : SpeakingStart(g, u, MaxPipes)
       /\ UNCHANGED <<vadVars, fnVars, stageVars, joinVars>>
    \/ /\ \E p \in 1..Len(pipes), packet \in PacketSet : Packet(p, packet, MaxPackets)
       /\ UNCHANGED <<vadVars, fnVars, stageVars, joinVars>>
    \/ /\ \E p \in 1..Len(pipes) : StreamEnd(p)
       /\ UNCHANGED <<vadVars, fnVars, stageVars, joinVars>>

SpecSession == InitSession /\ [][NextSession]_vars

(***************************************************************************)
(* SpecErrors: one pipeline per user, with codec errors and collaborator   *)
(* failures                                                                *)
(***************************************************************************)
\* the first speaking start of a user
FirstSpeakingStart(guildId, userId) ==
    /\ \A q \in 1..Len(pipes) : pipes[q].key # BufferKey(guildId, userId)
    /\ SpeakingStart(guildId, userId, MaxPipes)

NextErrors ==
    \/ /\ \E g \in Guilds, u \in Users : FirstSpeakingStart(g, u)
       /\ UNCHANGED <<vadVars, fnVars, stageVars, joinVars>>
    \/ /\ \E p \in 1..Len(pipes), packet \in PacketSet : Packet(p, packet, MaxPackets)
       /\ UNCHANGED <<vadVars, fnVars, stageVars, joinVars>>
    \/ /\ \E p \in 1..Len(pipes) : StreamEnd(p)
       /\ UNCHANGED <<vadVars, fnVars, stageVars, joinVars>>
    \/ /\ \E p \in 1..Len(pipes) : PipelineError(p)
       /\ UNCHANGED <<vadVars, fnVars, stageVars, joinVars>>
    \/ /\ \E i \in 1..Len(sttCalls), stt \in SttResults, injectOk \in BOOLEAN,
             tts \in TtsResults : Settle(i, stt, injectOk, tts)
       /\ UNCHANGED <<vadVars, fnVars, stageVars, joinVars>>

SpecErrors == InitSession /\ [][NextErrors]_vars

(***************************************************************************)
(* SpecDrain: one pipeline whose decoder may emit after the write          *)
(***************************************************************************)
NextDrain ==
    \/ /\ \E g \in Guilds, u \in Speakers : SpeakingStart(g, u, 1)
       /\ UNCHANGED <<vadVars, fnVars, stageVars, joinVars>>
    \/ /\ \E p \in 1..Len(pipes), packet \in PacketSet : Packet(p, packet, MaxPackets)
       /\ UNCHANGED <<vadVars, fnVars, stageVars, joinVars>>
    \/ /\ \E p \in 1..Len(pipes), packet \in PacketSet :
             PacketHeld(p, packet, MaxPackets)
       /\ UNCHANGED <<vadVars, fnVars, stageVars, joinVars>>
    \/ /\ \E p \in 1..Len(pipes), lost \in BOOLEAN : DecoderData(p, lost)
       /\ UNCHANGED <<vadVars, fnVars, stageVars, joinVars>>
    \/ /\ \E p \in 1..Len(pipes) : StreamEnd(p)
       /\ UNCHANGED <<vadVars, fnVars, stageVars, joinVars>>

SpecDrain == InitSession /\ [][NextDrain]_vars

(***************************************************************************)
(* SpecE2E: one session under the end-to-end scenario, times scaled 1:100  *)
(* (1 ms chunks for 100 ms chunks, vadSilenceMs 5 for 500)                 *)
(***************************************************************************)
E2EConfig == [vadThreshold |-> DefaultSilenceThreshold, vadSilenceMs |-> 5]

\* one loud chunk, then six silent chunks
E2EScenario ==
    <<LoudPacket, QuietPacket, QuietPacket, QuietPacket, QuietPacket,
      QuietPacket, QuietPacket>>

InitE2E ==
    /\ InitVAD
    /\ InitFn
    /\ config = E2EConfig
    /\ sttProvider = TRUE
    /\ pipes = <<>>
    /\ audioBuffers = [k \in Keys |-> NoEntry]
    /\ sttCalls = <<>>
    /\ slast = NoSessionOp
    /\ InitStageIdle
    /\ InitJoinIdle

NextE2E ==
    \/ /\ SpeakingStart("g1", "u1", 1)
       /\ UNCHANGED <<vadVars, fnVars, stageVars, joinVars>>
    \/ /\ \E packet \in PacketSet : Packet(1, packet, Len(E2EScenario))
       /\ UNCHANGED <<vadVars, fnVars, stageVars, joinVars>>

SpecE2E == InitE2E /\ [][NextE2E]_vars

(***************************************************************************)
(* SpecJoin: joinChannel and leaveChannel calls for two guilds             *)
(***************************************************************************)
InitJoin ==
    /\ InitVAD
    /\ InitFn
    /\ InitSessionIdle
    /\ stage = NewStage("OpusToPCMConverter")
    /\ InitJoinIdle

NextJoin ==
    \/ /\ \E g \in JoinGuilds : JoinChannel(g)
       /\ UNCHANGED <<vadVars, fnVars, sessionVars, stageVars>>
    \/ /\ \E c \in 1..Len(voiceConnections) : ConnectionReady(c)
       /\ UNCHANGED <<vadVars, fnVars, sessionVars, stageVars>>
    \/ /\ \E i \in 1..Len(joinCalls) : JoinChannelTimeout(i)
       /\ UNCHANGED <<vadVars, fnVars, sessionVars, stageVars>>
    \/ /\ \E g \in JoinGuilds : LeaveChannel(g)
       /\ UNCHANGED <<vadVars, fnVars, sessionVars, stageVars>>

SpecJoin == InitJoin /\ [][NextJoin]_vars

(***************************************************************************)
(* SpecStage: one converter stage with its codec and a consumer            *)
(***************************************************************************)
InitStage ==
    /\ InitVAD
    /\ InitFn
    /\ InitSessionIdle
    /\ \E kind \in StageKinds : stage = NewStage(kind)
    /\ InitJoinIdle

NextStage ==
    \/ /\ \E now \in BOOLEAN : StageWrite(now)
       /\ UNCHANGED <<vadVars, fnVars, sessionVars, joinVars>>
    \/ /\ CodecData
       /\ UNCHANGED <<vadVars, fnVars, sessionVars, joinVars>>
    \/ /\ CodecError
       /\ UNCHANGED <<vadVars, fnVars, sessionVars, joinVars>>
    \/ /\ ConsumerPause
       /\ UNCHANGED <<vadVars, fnVars, sessionVars, joinVars>>
    \/ /\ ConsumerResume
       /\ UNCHANGED <<vadVars, fnVars, sessionVars, joinVars>>
    \/ /\ StageDestroy
       /\ UNCHANGED <<vadVars, fnVars, sessionVars, joinVars>>
    \/ /\ StageEnd
       /\ UNCHANGED <<vadVars, fnVars, sessionVars, joinVars>>
    \/ /\ StageClose
       /\ UNCHANGED <<vadVars, fnVars, sessionVars, joinVars>>

SpecStage == InitStage /\ [][NextStage]_vars

(***************************************************************************)
(* Claims about the detector (checked under Spec)                          *)
(***************************************************************************)
IsSilentChunk(chunk) == DetectSilence(chunk, vad.silenceThreshold)

\* byte length of the silent chunks written since the last non-silent one
RECURSIVE TrailingSilentBytes(_)
TrailingSilentBytes(chunks) ==
    IF chunks = <<>> \/ ~IsSilentChunk(chunks[Len(chunks)]) THEN 0
    ELSE Len(chunks[Len(chunks)])
         + TrailingSilentBytes(SubSeq(chunks, 1, Len(chunks) - 1))

\* the silent chunks written since the last non-silent one all have the
\* byte length of the last chunk
RECURSIVE TrailingSilentUniform(_, _)
TrailingSilentUniform(chunks, n) ==
    \/ chunks = <<>>
    \/ ~IsSilentChunk(chunks[Len(chunks)])
    \/ /\ Len(chunks[Len(chunks)]) = n
       /\ TrailingSilentUniform(SubSeq(chunks, 1, Len(chunks) - 1), n)

ThresholdBytesTimes1000 == vad.silenceDurationMs * vad.sampleRate * 2

C2_SpeechStart ==
    last.op = "write" =>
        LET loud == ~IsSilentChunk(last.chunk)
        IN /\ ("speech-start" \in {last.emitted[i] : i \in 1..Len(last.emitted)})
                <=> (loud /\ ~last.pre.isSpeaking)
           /\ (loud /\ ~last.pre.isSpeaking) =>
                /\ last.emitted = <<"speech-start">>
                /\ vad.isSpeaking
                /\ vad.consecutiveSilence = 0
           /\ (loud /\ last.pre.isSpeaking) =>
                /\ last.emitted = <<>>
                /\ vad.isSpeaking
                /\ vad.consecutiveSilence = 0

\* a second speech-start after a reset, then silence, then a non-silent chunk
\* while Speaking
C2_Witness ==
    /\ last.op = "write"
    /\ ~IsSilentChunk(last.chunk)
    /\ last.pre.isSpeaking
    /\ last.pre.consecutiveSilence > 0
    /\ vad.consecutiveSilence = 0
    /\ events = <<"speech-start", "speech-start">>

\* C3: a silent chunk increments the counter, then the estimate
\* counter * byteLength(chunk) / (sampleRate * 2) s is compared with
\* silenceDurationMs; speech-end is emitted (and the state becomes Silent)
\* exactly when the estimate reaches it while Speaking, and never twice
\* without a speech-start in between.
C3_SpeechEnd ==
    /\ (last.op = "write" /\ IsSilentChunk(last.chunk)) =>
          LET count == last.pre.consecutiveSilence + 1
              reached == count * Len(last.chunk) * 1000 >= ThresholdBytesTimes1000
          IN /\ vad.consecutiveSilence = count
             /\ IF reached /\ last.pre.isSpeaking
                THEN last.emitted = <<"speech-end">> /\ ~vad.isSpeaking
                ELSE last.emitted = <<>> /\ vad.isSpeaking = last.pre.isSpeaking
    /\ \A i \in 1..Len(events) :
          events[i] = "speech-end" => i > 1 /\ events[i - 1] = "speech-start"

\* a silent chunk after the episode's speech-end, estimate above the
\* threshold, emits nothing
C3_Witness ==
    /\ last.op = "write"
    /\ IsSilentChunk(last.chunk)
    /\ ~last.pre.isSpeaking
    /\ vad.consecutiveSilence * Len(last.chunk) * 1000 >= ThresholdBytesTimes1000
    /\ last.emitted = <<>>
    /\ events = <<"speech-start", "speech-end">>

\* C4 as claimed: speech-end is never emitted while the summed duration of
\* the silent chunks since the last non-silent chunk is below
\* silenceDurationMs, for silent chunks of any sizes.
C4_NoEndBelowTotalSilence ==
    (last.op = "write" /\ last.emitted = <<"speech-end">>) =>
        TrailingSilentBytes(written) * 1000 >= ThresholdBytesTimes1000

\* C4 amended: the same when the silent chunks since the last non-silent
\* chunk all have the same byte length.
C4_NoEndBelowUniformSilence ==
    (/\ last.op = "write"
     /\ last.emitted = <<"speech-end">>
     /\ TrailingSilentUniform(written, Len(last.chunk))) =>
        TrailingSilentBytes(written) * 1000 >= ThresholdBytesTimes1000

C4_Witness ==
    /\ last.op = "write"
    /\ last.emitted = <<"speech-end">>
    /\ vad.consecutiveSilence >= 2
    /\ TrailingSilentUniform(written, Len(last.chunk))
    /\ TrailingSilentBytes(written) * 1000 >= ThresholdBytesTimes1000

\* C5: reset() clears isSpeaking and the counter and emits nothing; after a
\* reset no write emits speech-end until a write has emitted speech-start.
C5_Reset ==
    /\ last.op = "reset" =>
          /\ ~vad.isSpeaking
          /\ vad.consecutiveSilence = 0
          /\ last.emitted = <<>>
          /\ Len(events) = last.preEvents
    /\ (last.op = "write" /\ last.wasAfterReset /\ last.emitted # <<"speech-start">>)
          => /\ last.emitted = <<>>
             /\ ~vad.isSpeaking

\* reset() while Speaking, then silence whose estimate reaches the
\* threshold: no speech-end
C5_Witness ==
    /\ last.op = "write"
    /\ last.wasAfterReset
    /\ IsSilentChunk(last.chunk)
    /\ vad.consecutiveSilence * Len(last.chunk) * 1000 >= ThresholdBytesTimes1000
    /\ events = <<"speech-start">>
    /\ ~vad.isSpeaking

\* the samples of a chunk of whole samples
SamplesOf(chunk) ==
    [i \in 1..(Len(chunk) \div 2) |-> ReadInt16LE(chunk, 2 * (i - 1))]

RECURSIVE AbsTotal(_)
AbsTotal(samples) ==
    IF samples = <<>> THEN 0
    ELSE (IF Head(samples) < 0 THEN -Head(samples) ELSE Head(samples))
         + AbsTotal(Tail(samples))

\* the last write took the isSilent branch: it incremented the counter (the
\* other branch zeroes it)
TookSilentBranch ==
    vad.consecutiveSilence = last.pre.consecutiveSilence + 1

RECURSIVE TrailingSilentCount(_)
TrailingSilentCount(chunks) ==
    IF chunks = <<>> \/ ~IsSilentChunk(chunks[Len(chunks)]) THEN 0
    ELSE 1 + TrailingSilentCount(SubSeq(chunks, 1, Len(chunks) - 1))

\* C28: a silent chunk written in the Silent state increments the counter
\* and does nothing else (no event, state still Silent); the counter is 0
\* right after every non-silent chunk, so at any time it counts no silent
\* chunk from before the last non-silent one.
C28_SilenceWhileSilent ==
    /\ (last.op = "write" /\ IsSilentChunk(last.chunk) /\ ~last.pre.isSpeaking) =>
          /\ last.emitted = <<>>
          /\ ~vad.isSpeaking
          /\ vad = [last.pre EXCEPT
                       !.consecutiveSilence = last.pre.consecutiveSilence + 1]
    /\ (last.op = "write" /\ ~IsSilentChunk(last.chunk)) =>
          vad.consecutiveSilence = 0
    /\ vad.consecutiveSilence <= TrailingSilentCount(written)

\* silence from the start, long enough for a speech-end had there been
\* speech: nothing is emitted
C28_Witness ==
    /\ last.op = "write"
    /\ events = <<>>
    /\ IsSilentChunk(last.chunk)
    /\ ~vad.isSpeaking
    /\ vad.consecutiveSilence >= 2
    /\ vad.consecutiveSilence * Len(last.chunk) * 1000 >= ThresholdBytesTimes1000

\* C34 (SpecWrites, no reset): the events are speech-start, speech-end,
\* speech-start, ... in strict alternation from a speech-start on, and
\* isSpeaking holds exactly when the last event is a speech-start.
C34_EventsAlternate ==
    /\ \A i \in 1..Len(events) :
          events[i] = (IF i % 2 = 1 THEN "speech-start" ELSE "speech-end")
    /\ vad.isSpeaking <=> (Len(events) % 2 = 1)

\* two whole episodes, and a third begun
C34_Witness ==
    /\ events = <<"speech-start", "speech-end", "speech-start">>
    /\ vad.isSpeaking
    /\ last.op = "write"

\* C38: a chunk of zero bytes is handled as a non-silent chunk: written in
\* the Silent state it emits speech-start and the state becomes Speaking,
\* written in the Speaking state it emits nothing, and either way the
\* counter is 0 afterwards.
C38_EmptyChunkIsLoud ==
    (last.op = "write" /\ last.chunk = <<>>) =>
        /\ vad.isSpeaking
        /\ vad.consecutiveSilence = 0
        /\ last.emitted = (IF last.pre.isSpeaking THEN <<>>
                           ELSE <<"speech-start">>)

\* an empty chunk opens the episode, and an empty chunk then zeroes the
\* counter of the silence that followed
C38_Witness ==
    /\ Len(written) >= 3
    /\ written[1] = <<>>
    /\ events = <<"speech-start">>
    /\ last.op = "write"
    /\ last.chunk = <<>>
    /\ last.pre.isSpeaking
    /\ last.pre.consecutiveSilence > 0
    /\ vad.consecutiveSilence = 0

(***************************************************************************)
(* Claims about the buffer functions (checked under SpecFn)                *)
(***************************************************************************)
\* C10: a buffer whose byte length is no multiple of the stage's sample
\* stride (4 for downsampleAndMono, 2 for resampleAndStereo and for
\* detectSilence) makes the call fail with an error.
C10_BadStrideFails ==
    /\ (fnOp = "downsampleAndMono" /\ Len(fnIn) % 4 # 0) => fnOut.threw
    /\ (fnOp = "resampleAndStereo" /\ Len(fnIn) % 2 # 0) => fnOut.threw
    /\ (fnOp = "detectSilence" /\ Len(fnIn) % 2 # 0) => fnOut.threw

\* C18: for a stereo input whose byte length is a multiple of 12,
\* downsampleAndMono returns floor(samplesPerChannel / 3) * 2 bytes, with
\* samplesPerChannel = byteLength / 4, and no error.
C18_DownsampleLength ==
    (fnOp = "downsampleAndMono" /\ Len(fnIn) % 12 = 0) =>
        /\ ~fnOut.threw
        /\ Len(fnOut.data) = ((Len(fnIn) \div 4) \div 3) * 2

C18_Witness ==
    /\ fnOp = "downsampleAndMono"
    /\ Len(fnIn) % 12 = 0
    /\ Len(fnIn) > 0
    /\ Len(fnOut.data) = 2

\* sample i of a buffer of s16le samples
SampleAt(buffer, i) == ReadInt16LE(buffer, 2 * i)

\* C19: output sample i of downsampleAndMono is floor((left + right) / 2) of
\* the stereo pair at source frame 3 * i, floor toward negative infinity;
\* the value is a function of that frame alone.
C19_MonoIsFloorOfMean ==
    (fnOp = "downsampleAndMono" /\ ~fnOut.threw) =>
        \A i \in 0..((Len(fnOut.data) \div 2) - 1) :
            LET left == ReadInt16LE(fnIn, 12 * i)
                right == ReadInt16LE(fnIn, 12 * i + 2)
            IN /\ 2 * SampleAt(fnOut.data, i) <= left + right
               /\ left + right < 2 * SampleAt(fnOut.data, i) + 2

\* a negative odd sum, where floor and truncation differ, with the frames
\* 3i+1 and 3i+2 holding other values
C19_Witness ==
    /\ fnOp = "downsampleAndMono"
    /\ Len(fnOut.data) = 2
    /\ Len(fnIn) >= 12
    /\ ReadInt16LE(fnIn, 0) + ReadInt16LE(fnIn, 2) = -32769
    /\ ReadInt16LE(fnIn, 4) = 32767
    /\ SampleAt(fnOut.data, 0) = -16385

\* the rates of the last resampling call: resampleAndStereo always goes to
\* 48000
CallOutputRate == IF fnOp = "resamplePCM" THEN fnOutRate ELSE OutputRate

C21_FrameIsInterpolated ==
    (fnOp \in {"resamplePCM", "resampleAndStereo"} /\ ~fnOut.threw) =>
        \A i \in 0..((Len(fnOut.data) \div 4) - 1) :
            LET g == GCD(fnRate, CallOutputRate)
                num == fnRate \div g
                den == CallOutputRate \div g
                inputIndex == (i * num) \div den
                frac == (i * num) % den
                v == ReadInt16LE(fnOut.data, 4 * i)
            IN IF 2 * (inputIndex + 1) < Len(fnIn)
               THEN LET s1 == SampleAt(fnIn, inputIndex)
                        s2 == SampleAt(fnIn, inputIndex + 1)
                        x2 == 2 * den * s1 + 2 * frac * (s2 - s1) + den
                    IN 2 * den * v <= x2 /\ x2 < 2 * den * (v + 1)
               ELSE 2 * inputIndex < Len(fnIn) /\ v = SampleAt(fnIn, inputIndex)

\* samples -1 and 32767 at 16000 Hz to 48000 Hz: frame 1 is
\* round(-1 + 32768 / 3) = 10922, the last frame repeats 32767
C21_Witness ==
    /\ fnOp = "resamplePCM"
    /\ fnRate = 16000
    /\ fnOutRate = OutputRate
    /\ fnIn = EncodeSamples(<<-1, 32767>>)
    /\ ~fnOut.threw
    /\ Len(fnOut.data) = 24
    /\ ReadInt16LE(fnOut.data, 4) = 10922
    /\ ReadInt16LE(fnOut.data, 20) = 32767

\* C22: either upsampler, given an empty buffer, returns an empty buffer
\* without an error, whatever the rates.
C22_EmptyInEmptyOut ==
    (fnOp \in {"resamplePCM", "resampleAndStereo"} /\ fnIn = <<>>) =>
        (~fnOut.threw /\ fnOut.data = <<>>)

\* resamplePCM(Buffer.alloc(0), 24000, 16000)
C22_Witness ==
    /\ fnOp = "resamplePCM"
    /\ fnIn = <<>>
    /\ fnRate = 24000
    /\ fnOutRate = DefaultSampleRate
    /\ fnOut.data = <<>>
    /\ ~fnOut.threw

\* the value the loop hands to writeInt16LE for frame i of the call made
WrittenSample(i) ==
    IF fnOp = "resamplePCM"
    THEN Clamp16(PCMSample(fnIn, fnRate, fnOutRate, i))
    ELSE Clamp16(ResampleSample(fnIn, fnRate, i))

\* C23: every output of either upsampler is a whole number of 4-byte stereo
\* frames, the left and the right sample of each frame are the same value,
\* and that value, as handed to writeInt16LE, lies in -32768..32767.
C23_StereoFramesInRange ==
    (fnOp \in {"resamplePCM", "resampleAndStereo"} /\ ~fnOut.threw) =>
        /\ Len(fnOut.data) % 4 = 0
        /\ \A i \in 0..((Len(fnOut.data) \div 4) - 1) :
              /\ WrittenSample(i) \in (-32768)..32767
              /\ ReadInt16LE(fnOut.data, 4 * i) = WrittenSample(i)
              /\ ReadInt16LE(fnOut.data, 4 * i + 2) = WrittenSample(i)

\* both extremes in one input, interpolated between: -32768, -10923, 10922,
\* 32767, ... on both channels
C23_Witness ==
    /\ fnOp = "resamplePCM"
    /\ fnRate = 16000
    /\ fnOutRate = OutputRate
    /\ fnIn = EncodeSamples(<<-32768, 32767>>)
    /\ ~fnOut.threw
    /\ ReadInt16LE(fnOut.data, 0) = -32768
    /\ ReadInt16LE(fnOut.data, 2) = -32768
    /\ ReadInt16LE(fnOut.data, 20) = 32767
    /\ ReadInt16LE(fnOut.data, 22) = 32767
    /\ ReadInt16LE(fnOut.data, 4) = ReadInt16LE(fnOut.data, 6)
    /\ ReadInt16LE(fnOut.data, 4) \notin {-32768, 32767}

\* C24: resamplePCM(input, r, 48000) and resampleAndStereo(input) of a
\* PCMToOpusConverter with inputSampleRate r give the same result, bytes or
\* error, for every input and rate.
C24_SameAsConverter ==
    /\ (fnOp = "resamplePCM" /\ fnOutRate = OutputRate) =>
          fnOut = ResampleAndStereo(fnIn, fnRate)
    /\ fnOp = "resampleAndStereo" =>
          fnOut = ResamplePCM(fnIn, fnRate, OutputRate)

\* three samples at 24000 Hz: six interpolated frames, the same from both
C24_Witness ==
    /\ fnOp = "resamplePCM"
    /\ fnOutRate = OutputRate
    /\ fnRate = 24000
    /\ fnIn = EncodeSamples(<<-1, 32767, -32768>>)
    /\ ~fnOut.threw
    /\ Len(fnOut.data) = 24
    /\ ReadInt16LE(fnOut.data, 4) = 16383
    /\ fnOut.data = ResampleAndStereo(fnIn, fnRate).data

\* C26: a synthesis result without sampleRate is resampled as 22050 Hz audio
\* and, for whole samples, played without a failure; a result with a
\* sampleRate is resampled from that rate.  Either way the audio played is
\* resamplePCM(audio, rate, 48000).
C26_TtsRateWithFallback ==
    fnOp = "playTTSResponse" =>
        LET rate == IF fnOut.hasSampleRate THEN fnRate ELSE 22050
            converted == ResamplePCM(fnIn, rate, 48000)
        IN /\ fnOut.sampleRate = rate
           /\ fnOut.data = converted.data
           /\ fnOut.played = ~converted.threw
           /\ Len(fnIn) % 2 = 0 =>
                 /\ fnOut.played
                 /\ Len(fnOut.data) = 4 * (((Len(fnIn) \div 2) * 48000) \div rate)

\* three samples without a sample rate: floor(3 * 48000 / 22050) = 6 frames,
\* the second round(-1 + (147 / 320) * 32768) = 15052
C26_Witness ==
    /\ fnOp = "playTTSResponse"
    /\ ~fnOut.hasSampleRate
    /\ fnIn = EncodeSamples(<<-1, 32767, -1>>)
    /\ fnOut.played
    /\ Len(fnOut.data) = 24
    /\ ReadInt16LE(fnOut.data, 4) = 15052

\* C29: what a converter pushes for a decoder chunk depends on that chunk
\* alone: after an earlier chunk with trailing frames, the chunk gives the
\* bytes it gives as the first chunk of a converter, floor(length / 12)
\* samples, each the floor of the mean of its own frame 3 * i; the trailing
\* frames of the earlier chunk are in neither output.
C29_DownsamplerStateless ==
    fnOp = "converter" =>
        /\ Len(fnOut.pushes) = 2
        /\ Len(fnOut.pushes[1]) = 2 * (Len(fnOut.first) \div 12)
        /\ fnOut.pushes[2] = ConverterPushes(<<fnIn>>)[1]
        /\ Len(fnOut.pushes[2]) = 2 * (Len(fnIn) \div 12)
        /\ \A i \in 0..((Len(fnIn) \div 12) - 1) :
              SampleAt(fnOut.pushes[2], i)
                  = (SampleAt(fnIn, 6 * i) + SampleAt(fnIn, 6 * i + 1)) \div 2

\* four frames of 32767 / -1, then thirteen bytes of -1: one sample for each,
\* the second -1, the fourth frame of the first chunk nowhere
C29_Witness ==
    /\ fnOp = "converter"
    /\ Len(fnOut.first) = 16
    /\ Len(fnIn) = 13
    /\ \A k \in 1..12 : fnIn[k] = 255
    /\ fnOut.pushes = <<EncodeSamples(<<32767>>), EncodeSamples(<<-1>>)>>

\* C30: for the stereo pairs read by the downsampler, the extremes
\* included, floor((left + right) / 2) lies in -32768..32767, so the output
\* holds that value as written, unclamped and unwrapped.
C30_MonoNeedsNoClamp ==
    fnOp = "downsampleAndMono" =>
        \A i \in 0..((Len(fnOut.data) \div 2) - 1) :
            /\ DownsampleMono(fnIn, i) \in (-32768)..32767
            /\ ReadInt16LE(fnOut.data, 2 * i) = DownsampleMono(fnIn, i)

\* left = right = -32768 gives -32768
C30_Witness ==
    /\ fnOp = "downsampleAndMono"
    /\ Len(fnIn) = 12
    /\ SampleAt(fnIn, 0) = -32768
    /\ SampleAt(fnIn, 1) = -32768
    /\ fnOut.data = EncodeSamples(<<-32768>>)

\* the inputIndex the loop computes for frame i of the call made
CallInputIndex(i) ==
    IF fnOp = "resamplePCM" THEN PCMInputIndex(i, fnRate, fnOutRate)
    ELSE ResampleInputIndex(i, fnRate)

\* the sample of frame i of the call made, before the clamp
UnclampedSample(i) ==
    IF fnOp = "resamplePCM" THEN PCMSample(fnIn, fnRate, fnOutRate, i)
    ELSE ResampleSample(fnIn, fnRate, i)

\* C36: for an input of whole samples, every output frame i of either
\* upsampler has inputIndex < inputSamples: the branch that fills in 0 is
\* not taken, and no read is out of range.
C36_NoFillerFrame ==
    (fnOp \in {"resamplePCM", "resampleAndStereo"} /\ Len(fnIn) % 2 = 0) =>
        /\ ~fnOut.threw
        /\ \A i \in 0..((Len(fnOut.data) \div 4) - 1) :
              /\ 2 * CallInputIndex(i) < Len(fnIn)
              /\ 2 * ((i * fnRate) \div CallOutputRate) < Len(fnIn)

\* one sample at 16000 Hz gives three frames, all read at inputIndex 0
C36_Witness ==
    /\ fnOp = "resamplePCM"
    /\ fnRate = 16000
    /\ fnOutRate = OutputRate
    /\ fnIn = EncodeSamples(<<32767>>)
    /\ fnOut.data = EncodeSamples(<<32767, 32767, 32767, 32767, 32767, 32767>>)
    /\ CallInputIndex(2) = 0

\* C37: in every output of either upsampler the sample of each frame lies
\* in -32768..32767 before the clamp, so the clamp leaves it as it is.
C37_ClampChangesNothing ==
    (fnOp \in {"resamplePCM", "resampleAndStereo"} /\ ~fnOut.threw) =>
        \A i \in 0..((Len(fnOut.data) \div 4) - 1) :
            /\ UnclampedSample(i) >= -32768
            /\ UnclampedSample(i) <= 32767
            /\ Clamp16(UnclampedSample(i)) = UnclampedSample(i)

\* from -32768 to 32767 and back at 24000 Hz: the frames between are
\* round(-0.5) = 0 and round(-0.5) = 0
C37_Witness ==
    /\ fnOp = "resampleAndStereo"
    /\ fnRate = 24000
    /\ fnIn = EncodeSamples(<<-32768, 32767, -32768>>)
    /\ ~fnOut.threw
    /\ UnclampedSample(1) = 0
    /\ UnclampedSample(2) = 32767
    /\ UnclampedSample(3) = 0
    /\ ReadInt16LE(fnOut.data, 16) = -32768

(***************************************************************************)
(* Claims about the session layer                                          *)
(***************************************************************************)
\* the chunks the detector receives in the end-to-end scenario
E2EChunks == [i \in 1..Len(E2EScenario) |-> ConverterOutput(E2EScenario[i])]

\* the whole scenario has been fed to the one pipeline
E2EFed == Len(pipes) = 1 /\ pipes[1].arrived = E2EScenario

\* C6 as stated (SpecE2E): after one loud chunk and six silent chunks the
\* detector has emitted exactly speech-start then speech-end, and the one
\* buffer handed to STT is the concatenation of all seven chunks.
C6_AllSevenChunks ==
    E2EFed =>
        /\ pipes[1].events = <<"speech-start", "speech-end">>
        /\ Len(sttCalls) = 1
        /\ sttCalls[1].audio = Concat(E2EChunks)

\* C6 amended (SpecE2E): after one loud chunk and six silent chunks the
\* detector has emitted exactly speech-start then speech-end, and the one
\* buffer handed to STT is the concatenation of the chunks that precede the
\* chunk on which speech-end fires: the loud chunk and four silent chunks.
C6_ChunksBeforeSpeechEnd ==
    E2EFed =>
        /\ pipes[1].events = <<"speech-start", "speech-end">>
        /\ Len(sttCalls) = 1
        /\ sttCalls[1].audio = Concat(SubSeq(E2EChunks, 1, 5))
        /\ sttCalls[1].sampleRate = ListeningSampleRate
        /\ ~audioBuffers[pipes[1].key].present

C6_Witness == E2EFed /\ sttCalls # <<>> /\ slast.op = "packet"

\* transcribeUserSpeech has just run for a key whose entry holds chunks
DrainedWithChunks ==
    /\ slast.transcribed
    /\ slast.tBefore[slast.key].present
    /\ slast.tBefore[slast.key].chunks # <<>>

\* transcribeUserSpeech has just run for a key with no entry or no chunks
DrainedEmpty == slast.transcribed /\ ~DrainedWithChunks

\* the call transcribeUserSpeech makes for the chunks it found
ExpectedSttCall ==
    [key |-> slast.key,
     audio |-> Concat(slast.tBefore[slast.key].chunks),
     format |-> "pcm_s16le", sampleRate |-> 16000, language |-> "en",
     state |-> "pending"]

NoOpDrain ==
    DrainedEmpty => /\ slast.tAfter = slast.tBefore
                    /\ Len(sttCalls) = slast.preCalls

\* C7 as stated (SpecSession): a drain of an entry with chunks removes the
\* entry and calls stt.transcribe once with the chunks concatenated in
\* append order, pcm_s16le, 16000; a drain of a missing or empty entry
\* changes nothing and calls nothing.
C7_DrainAlwaysCallsStt ==
    /\ DrainedWithChunks =>
           /\ slast.tAfter = [slast.tBefore EXCEPT ![slast.key] = NoEntry]
           /\ Len(sttCalls) = slast.preCalls + 1
           /\ sttCalls[Len(sttCalls)] = ExpectedSttCall
    /\ NoOpDrain

\* C7 amended (SpecSession): a drain of an entry with chunks removes the
\* entry; with an STT provider it calls stt.transcribe once with the chunks
\* concatenated in append order, pcm_s16le, 16000, and without one it makes
\* no call; a drain of a missing or empty entry changes nothing and calls
\* nothing.
C7_DrainCallsSttIfProvided ==
    /\ DrainedWithChunks =>
           /\ slast.tAfter = [slast.tBefore EXCEPT ![slast.key] = NoEntry]
           /\ sttProvider =>
                  /\ Len(sttCalls) = slast.preCalls + 1
                  /\ sttCalls[Len(sttCalls)] = ExpectedSttCall
           /\ ~sttProvider => Len(sttCalls) = slast.preCalls
    /\ NoOpDrain

C7_Witness ==
    /\ DrainedWithChunks
    /\ slast.emitted = <<"speech-end">>
    /\ Len(slast.tBefore[slast.key].chunks) >= 2
    /\ sttProvider

\* C8 (SpecSession): an entry appears for a key only on a step in which the
\* key's detector emits speech-start, such a step creates the entry when
\* there is none, and a new start for a key never replaces an entry that
\* holds chunks.
C8_CreatedOnSpeechStartOnly ==
    \A k \in Keys :
        /\ (~slast.before[k].present /\ audioBuffers[k].present) =>
               /\ slast.op = "packet"
               /\ slast.key = k
               /\ slast.emitted = <<"speech-start">>
        /\ (/\ slast.op = "packet"
            /\ slast.key = k
            /\ slast.emitted = <<"speech-start">>
            /\ ~slast.before[k].present) => audioBuffers[k].present
        /\ (/\ slast.op = "speaking-start"
            /\ slast.key = k
            /\ slast.before[k].chunks # <<>>) => audioBuffers[k] = slast.before[k]

\* the pipeline of the last step is the only one of its key
OnlyPipeOfKey ==
    \A q \in 1..Len(pipes) : q # slast.pipe => pipes[q].key # slast.key

\* C9 (SpecSession): a chunk the detector forwards while an episode is open
\* (the detector is Speaking once the chunk is through) is appended at the
\* end of the key's entry, after the chunks that arrived before it.
C9_OpenEpisodeChunksAppended ==
    (slast.op = "packet" /\ slast.speaking /\ OnlyPipeOfKey) =>
        /\ audioBuffers[slast.key].present
        /\ audioBuffers[slast.key].chunks =
               Append(slast.before[slast.key].chunks, slast.chunk)

\* bytes of audio handed to stt.transcribe so far, bytes held in the map,
\* and bytes the converters have produced from the packets that arrived
RECURSIVE BytesHanded(_)
BytesHanded(n) ==
    IF n = 0 THEN 0 ELSE BytesHanded(n - 1) + Len(sttCalls[n].audio)

BytesBuffered ==
    LET RECURSIVE Sum(_)
        Sum(ks) == IF ks = {} THEN 0
                   ELSE LET k == CHOOSE x \in ks : TRUE
                        IN Len(Concat(audioBuffers[k].chunks)) + Sum(ks \ {k})
    IN Sum(Keys)

RECURSIVE BytesOfPackets(_)
BytesOfPackets(packets) ==
    IF packets = <<>> THEN 0
    ELSE Len(ConverterOutput(Head(packets))) + BytesOfPackets(Tail(packets))

RECURSIVE BytesArrived(_)
BytesArrived(n) ==
    IF n = 0 THEN 0 ELSE BytesArrived(n - 1) + BytesOfPackets(pipes[n].arrived)

\* C32 (SpecSession): no chunk is handed to stt.transcribe twice.  The audio
\* of all calls together with what the map still holds is no more than what
\* arrived; a drain that makes a call leaves no entry for the key; and a
\* drain that finds no entry or no chunks, as the second of two drains of one
\* key does, makes no call.
C32_NoChunkHandedTwice ==
    /\ BytesHanded(Len(sttCalls)) + BytesBuffered <= BytesArrived(Len(pipes))
    /\ slast.transcribed =>
          /\ Len(sttCalls) <= slast.preCalls + 1
          /\ Len(sttCalls) = slast.preCalls + 1 =>
                /\ ~slast.tAfter[slast.key].present
                /\ sttCalls[Len(sttCalls)].audio
                      = Concat(slast.tBefore[slast.key].chunks)
          /\ (~slast.tBefore[slast.key].present
                 \/ slast.tBefore[slast.key].chunks = <<>>) =>
                /\ Len(sttCalls) = slast.preCalls
                /\ slast.tAfter = slast.tBefore

\* the stream ends after a speech-end has drained the key: the second drain
\* finds no entry and calls nothing
C32_Witness ==
    /\ slast.op = "stream-end"
    /\ ~slast.tBefore[slast.key].present
    /\ Len(sttCalls) = 1
    /\ slast.preCalls = 1
    /\ "speech-end" \in {pipes[slast.pipe].events[i] :
                              i \in 1..Len(pipes[slast.pipe].events)}
    /\ BytesHanded(1) > 0

\* C33 (SpecDrain): when the audio stream of a pipeline has ended, every
\* chunk decoded from its packets has been through the detector's 'data'
\* handler before the drain of that end: none is still held by the decoder
\* and none is decoded afterwards.
C33_EndDrainHasAll ==
    \A p \in 1..Len(pipes) :
        pipes[p].ended => (pipes[p].held = <<>> /\ pipes[p].late = 0)

(***************************************************************************)
(* Claims about a converter stage (checked under SpecStage)                *)
(***************************************************************************)
\* C11: every 'error' event of the codec is re-emitted as an 'error' event of
\* the stage with the same error object, once per codec error and in order.
C11_CodecErrorsForwarded == stage.errors = stage.codecErrors

C11_Witness ==
    /\ stage.op = "codec-error"
    /\ Len(stage.codecErrors) = MaxCodecErrors
    /\ stage.writes > 0

\* C13: once the stage is destroyed its codec is destroyed, no chunk reaches
\* the consumer any more, nothing stays buffered for it, and the stage has
\* emitted no error besides the codec's own.
C13_DestroyStopsForwarding ==
    stage.destroyed =>
        /\ stage.codecDestroyed
        /\ Len(stage.delivered) = stage.deliveredAtDestroy
        /\ stage.readable = <<>>
        /\ Len(stage.errors) = Len(stage.codecErrors)

\* the codec emits 'data' after the stage was destroyed with output pending
C13_Witness ==
    /\ stage.destroyed
    /\ stage.op = "codec-data"
    /\ stage.writes > Len(stage.delivered) + Len(stage.codecHeld)

\* C14: the data held undelivered inside the stage, the codec's pending
\* output plus the stage's readable buffer, never exceeds the high-water
\* mark by more than one chunk, however many chunks are written.
C14_HeldBounded ==
    Len(stage.codecHeld) + Len(stage.readable) <= HighWaterMark + 1

\* C35: once the stage has signalled end-of-stream, no output of the codec
\* is pushed to it: this.push(chunk) is never called after push(null),
\* whenever the codec emits its 'data'.
C35_NoPushAfterEnd == stage.eofErrors = 0

(***************************************************************************)
(* Claims about errors in a session (checked under SpecErrors)             *)
(***************************************************************************)
\* C12: after a codec error on a packet of a pipeline, the pipeline is still
\* live: it keeps taking and processing the packets of its session.
C12_PipelineSurvivesCodecError ==
    slast.op = "codec-error" => Live(pipes[slast.pipe])

\* an utterance of the key has failed at stt.transcribe, ctx.inject or
\* tts.synthesize
FailedFor(key) ==
    \E i \in 1..Len(sttCalls) :
        sttCalls[i].key = key /\ sttCalls[i].state = "failed"

\* C15: a rejection of stt.transcribe, ctx.inject or tts.synthesize changes
\* no buffer entry and no pipeline, the chunks of the failed utterance are
\* not in the map, and the chunks of the next utterance of the same key are
\* appended to the key's entry.
C15_FailureConfined ==
    /\ (slast.op = "settle" /\ slast.outcome \in FailureOutcomes) =>
           /\ audioBuffers = slast.before
           /\ pipes = slast.pipesBefore
    /\ (/\ slast.op = "packet"
        /\ slast.speaking
        /\ OnlyPipeOfKey
        /\ FailedFor(slast.key)) =>
           /\ audioBuffers[slast.key].present
           /\ audioBuffers[slast.key].chunks =
                  Append(slast.before[slast.key].chunks, slast.chunk)

\* the last step was an error in the session of slast.key
ErrorStep ==
    \/ slast.op = "codec-error"
    \/ slast.op = "settle" /\ slast.outcome \in FailureOutcomes

\* C16: an error in one session (codec error with the teardown of its
\* pipeline, STT / inject / TTS failure) leaves the buffer entry, the
\* detector and the pipeline of every other session as they were.
C16_ErrorsIsolated ==
    ErrorStep =>
        /\ \A k \in Keys : k # slast.key => audioBuffers[k] = slast.before[k]
        /\ Len(pipes) = Len(slast.pipesBefore)
        /\ \A q \in 1..Len(pipes) :
               pipes[q].key # slast.key => pipes[q] = slast.pipesBefore[q]

\* a codec error in one session while another is in an episode with chunks
C16_Witness ==
    /\ slast.op = "codec-error"
    /\ \E q \in 1..Len(pipes) :
           /\ pipes[q].key # slast.key
           /\ Live(pipes[q])
           /\ pipes[q].vad.isSpeaking
           /\ audioBuffers[pipes[q].key].chunks # <<>>

\* C17 (SpecSession): no two live pipelines have the same session key, so no
\* buffer entry is fed by two detectors.
C17_OneLivePipelinePerKey ==
    \A p1, p2 \in 1..Len(pipes) :
        (p1 # p2 /\ pipes[p1].key = pipes[p2].key) =>
            ~(Live(pipes[p1]) /\ Live(pipes[p2]))

\* the transcript stt.transcribe settled with holds nothing but whitespace
BlankTranscript(stt) ==
    /\ stt.kind # "rejected"
    /\ \A k \in 1..Len(stt.text) : stt.text[k] \in Whitespace

\* C25 (SpecErrors): when stt.transcribe settles with an empty or
\* whitespace-only transcript, ctx.inject and tts.synthesize are not called
\* for the utterance, the call ends without a failure, and no buffer entry
\* and no pipeline changes.
C25_BlankTranscriptIsNothingSaid ==
    (slast.op = "settle" /\ BlankTranscript(slast.stt)) =>
        /\ ~slast.injected
        /\ ~slast.synthesized
        /\ slast.outcome = "empty-transcript"
        /\ sttCalls[slast.call].state = "done"
        /\ audioBuffers = slast.before
        /\ pipes = slast.pipesBefore

\* a transcript of a tab and a space, for an utterance that held audio
C25_Witness ==
    /\ slast.op = "settle"
    /\ slast.stt = [kind |-> "text", text |-> <<"\t", " ">>]
    /\ sttCalls[slast.call].audio # <<>>
    /\ sttCalls[slast.call].state = "done"
    /\ ~slast.injected

(***************************************************************************)
(* Claims about joinChannel (checked under SpecJoin)                       *)
(***************************************************************************)
\* the connections of a guild that are not destroyed
LiveConnections(guildId) ==
    {c \in 1..Len(voiceConnections) :
        voiceConnections[c].guildId = guildId
        /\ voiceConnections[c].status # "destroyed"}

\* C31: a guild has at most one live voice connection, and however the
\* joinChannel calls for it overlap, that connection has had one player
\* created for it and one startListening, not more.
C31_OneConnectionAndPlayerPerGuild ==
    \A g \in JoinGuilds :
        /\ Cardinality(LiveConnections(g)) <= 1
        /\ \A c \in LiveConnections(g) :
              /\ Len(voiceConnections[c].players) <= 1
              /\ voiceConnections[c].listening <= 1

\* C39: a joinChannel call whose connection does not become Ready in time
\* destroys the connection and rethrows the error of the wait; afterwards
\* connections, audioPlayers and audioBuffers hold nothing for the guild,
\* and the call has created no player and started no listening.
C39_TimeoutLeavesNothing ==
    jlast.op = "timeout" =>
        /\ voiceConnections[jlast.connection].status = "destroyed"
        /\ joinCalls[jlast.call].state = "threw"
        /\ connections[jlast.guildId] = 0
        /\ audioPlayers[jlast.guildId] = 0
        /\ \A k \in Keys : ~audioBuffers[k].present
        /\ players = jlast.playersBefore
        /\ Listening = jlast.listeningBefore

====
